---- MODULE Spec2Model ----
(***************************************************************************)
(* State-machine model of EnhancedTradingSystem                            *)
(* (src/enhanced_trading_modes.py): the interactive run, the four signal   *)
(* generators, the reply parser and the ATR level calculator.              *)
(*                                                                         *)
(* Number domain.  Prices and ATR values are decimal fixed-point integers  *)
(* counted in SUB-UNITS of the selected asset: one sub-unit is             *)
(* 10^-(price_decimals+1), so a value rounded to the asset's precision is  *)
(* a multiple of 10.  ATR multiples and confluence scores are counted in   *)
(* tenths (1.5 is 15).  Texts are sequences of one-character strings.      *)
(***************************************************************************)
EXTENDS Integers, Sequences, FiniteSets, TLC

VARIABLES
    pc,                 \* position of the run / of the function under check
    selected_mode,      \* self.selected_mode   (an entry of mode_config, or None)
    selected_asset,     \* self.selected_asset  (an entry of asset_config, or None)
    selected_timeframe, \* self.selected_timeframe (an entry of timeframe_config, or None)
    current_price,      \* self.current_price
    atr_value,          \* self.atr_value
    indicators,         \* what the indicator engines hold after the analysis
    ai_signal,          \* what gemini_api.send_prompt returned (or LLM_ERROR)
    atr_levels,         \* a direct call of _calculate_atr_levels: its argument and result
    signal,             \* the Signal returned by the generator (or NoSignal)
    created_files,      \* self.created_files
    disk,               \* the data files that exist on disk
    data_file,          \* the 'data_file' entries written into the selected
                        \* asset's and the timeframes' dicts
    run,                \* the number of the process: main() is run once per process
    exit_status,        \* Null while the process runs, its exit status afterwards
    log_file,           \* the lines of trading_signals_<day>.csv (empty: no file)
    calls,              \* the calls of this process to the collaborators
    produced            \* the runs whose run_trading_system returned a Signal

vars == << pc, selected_mode, selected_asset, selected_timeframe, current_price,
           atr_value, indicators, ai_signal, atr_levels, signal,
           created_files, disk, data_file,
           run, exit_status, log_file, calls, produced >>

\* the state of the process around the run: what main() and the interpreter
\* keep, and the bookkeeping of the calls made
process == << run, exit_status, log_file, calls, produced >>

files == << created_files, disk, data_file >>

\* None, where the other values are strings
None == "None"

\* an optional number or text: None is Null, the value v is Some(v)
Null == << >>
Some(v) == << v >>
ValueOf(o) == o[1]

\* no Signal
NoSignal == [ action |-> None ]

\* the value of ai_signal before the language model was called, and after a
\* call that raised
NoReply == << None >>
LLM_ERROR == << "LLM_ERROR" >>

\* no call made yet: send_prompt counts the calls of the language-model
\* client, download_gold_data lists the intervals fetched and
\* save_data_to_csv the files written, in call order
NoCalls == [ send_prompt |-> 0, download_gold_data |-> << >>, save_data_to_csv |-> << >> ]

-----------------------------------------------------------------------------
(* Bounds of the model *)

\* generated replies hold at most this many words
MaxWords == 2

\* the level calculator is explored for ATR values 0..MaxAtr sub-units
MaxAtr == 24

\* ... and for prices base .. base + MaxPriceOffset sub-units
MaxPriceOffset == 20

-----------------------------------------------------------------------------
(* Python text primitives *)

Digits == {"0", "1", "2", "3", "4", "5", "6", "7", "8", "9"}

DigitVal(c) ==
    CASE c = "0" -> 0 [] c = "1" -> 1 [] c = "2" -> 2 [] c = "3" -> 3
      [] c = "4" -> 4 [] c = "5" -> 5 [] c = "6" -> 6 [] c = "7" -> 7
      [] c = "8" -> 8 [] c = "9" -> 9

LowerToUpper ==
    [ a |-> "A", b |-> "B", c |-> "C", d |-> "D", e |-> "E", f |-> "F",
      g |-> "G", h |-> "H", i |-> "I", j |-> "J", k |-> "K", l |-> "L",
      m |-> "M", n |-> "N", o |-> "O", p |-> "P", q |-> "Q", r |-> "R",
      s |-> "S", t |-> "T", u |-> "U", v |-> "V", w |-> "W", x |-> "X",
      y |-> "Y", z |-> "Z" ]

\* str.upper(), one character
UpperChar(c) == IF c \in DOMAIN LowerToUpper THEN LowerToUpper[c] ELSE c

\* str.upper()
Upper(s) == [ i \in 1..Len(s) |-> UpperChar(s[i]) ]

\* str.lower(), one character
LowerChar(c) ==
    IF \E l \in DOMAIN LowerToUpper : LowerToUpper[l] = c
    THEN CHOOSE l \in DOMAIN LowerToUpper : LowerToUpper[l] = c
    ELSE c

\* str.lower()
Lower(s) == [ i \in 1..Len(s) |-> LowerChar(s[i]) ]

Whitespace == {" ", "\n"}

RECURSIVE LStrip(_)
LStrip(s) ==
    IF s # << >> /\ Head(s) \in Whitespace THEN LStrip(Tail(s)) ELSE s

RECURSIVE RStrip(_)
RStrip(s) ==
    IF s # << >> /\ s[Len(s)] \in Whitespace
    THEN RStrip(SubSeq(s, 1, Len(s) - 1))
    ELSE s

\* str.strip()
Strip(s) == RStrip(LStrip(s))

\* index of the first occurrence of pat in s at or after position i, 0 if none
RECURSIVE FindFrom(_, _, _)
FindFrom(s, pat, i) ==
    IF i + Len(pat) - 1 > Len(s) THEN 0
    ELSE IF SubSeq(s, i, i + Len(pat) - 1) = pat THEN i
    ELSE FindFrom(s, pat, i + 1)

\* str.find(pat) + 1
Find(s, pat) == FindFrom(s, pat, 1)

\* pat in s
Contains(s, pat) == Find(s, pat) # 0

\* index of the last character of the run of digits starting at i (i-1 if none)
RECURSIVE DigitRunEnd(_, _)
DigitRunEnd(s, i) ==
    IF i <= Len(s) /\ s[i] \in Digits THEN DigitRunEnd(s, i + 1) ELSE i - 1

\* index of the last character of the match of \d+\.?\d* that starts at i
MatchEnd(s, i) ==
    LET e1 == DigitRunEnd(s, i)
    IN  IF e1 + 1 <= Len(s) /\ s[e1 + 1] = "."
        THEN DigitRunEnd(s, e1 + 2)
        ELSE e1

\* re.findall(r'\d+\.?\d*', s) from position i on: the matched substrings
RECURSIVE FindAllFrom(_, _)
FindAllFrom(s, i) ==
    IF i > Len(s) THEN << >>
    ELSE IF s[i] \notin Digits THEN FindAllFrom(s, i + 1)
    ELSE << SubSeq(s, i, MatchEnd(s, i)) >> \o FindAllFrom(s, MatchEnd(s, i) + 1)

FindAllNumbers(s) == FindAllFrom(s, 1)

\* the digits of a matched number as one integer, the '.' dropped
RECURSIVE Mantissa(_)
Mantissa(num) ==
    IF num = << >> THEN 0
    ELSE IF num[Len(num)] = "." THEN Mantissa(SubSeq(num, 1, Len(num) - 1))
    ELSE 10 * Mantissa(SubSeq(num, 1, Len(num) - 1)) + DigitVal(num[Len(num)])

\* how many digits follow the '.' of a matched number
FracDigits(num) ==
    LET dot == Find(num, << "." >>)
    IN  IF dot = 0 THEN 0 ELSE Len(num) - dot

RECURSIVE Pow10(_)
Pow10(n) == IF n <= 0 THEN 1 ELSE 10 * Pow10(n - 1)

\* float(num): the value as mantissa / 10^frac
Float(num) == [ mant |-> Mantissa(num), frac |-> FracDigits(num) ]

-----------------------------------------------------------------------------
(* Rounding *)

\* nearest integer to n / q (q > 0), an exact tie going to the even neighbour:
\* round() on a value that is exactly representable
RoundHalfEven(n, q) ==
    LET fl == n \div q
        r  == n % q
    IN  IF 2 * r < q THEN fl
        ELSE IF 2 * r > q THEN fl + 1
        ELSE IF fl % 2 = 0 THEN fl ELSE fl + 1


\* round(v, decimals) for v counted in tenths of a sub-unit of an asset with
\* that many decimals; the result is counted in sub-units (a multiple of 10)
Round(v, decimals) == 10 * RoundHalfEven(v, 100)

\* round(float(num), decimals) for a number read from a text; sub-units
RoundFloat(fl, decimals) ==
    IF fl.frac <= decimals
    THEN 10 * fl.mant * Pow10(decimals - fl.frac)
    ELSE 10 * RoundHalfEven(fl.mant, Pow10(fl.frac - decimals))

-----------------------------------------------------------------------------
(* Configuration tables *)

\* pip_value is counted in sub-units of the asset: 0.0001 with 5 decimals is
\* 100, 0.10 with 2 decimals is 100, 1.00 with 2 decimals is 1000
asset_config ==
    [ k \in {"1", "2", "3", "4"} |->
        CASE k = "1" -> [ name |-> "EUR/USD", display_name |-> "EURUSD",
                          price_decimals |-> 5, pip_value |-> 100, pip_buffer |-> 5 ]
          [] k = "2" -> [ name |-> "GBP/USD", display_name |-> "GBPUSD",
                          price_decimals |-> 5, pip_value |-> 100, pip_buffer |-> 5 ]
          [] k = "3" -> [ name |-> "Gold (XAUUSD)", display_name |-> "XAUUSD",
                          price_decimals |-> 2, pip_value |-> 100, pip_buffer |-> 5 ]
          [] k = "4" -> [ name |-> "Bitcoin", display_name |-> "BITCOIN",
                          price_decimals |-> 2, pip_value |-> 1000, pip_buffer |-> 5 ] ]

\* the five intervals of the multi-timeframe entry, in download order
MultiTimeframes == << "1d", "4h", "1h", "15m", "5m" >>

\* a key a dict does not hold reads as None (dict.get): the single timeframes
\* have no 'type', the multi-timeframe entry has no 'interval'
timeframe_config ==
    [ k \in {"1", "2", "3", "4"} |->
        CASE k = "1" -> [ interval |-> "1m",  type |-> None,    display_name |-> "1MIN" ]
          [] k = "2" -> [ interval |-> "5m",  type |-> None,    display_name |-> "5MIN" ]
          [] k = "3" -> [ interval |-> "15m", type |-> None,    display_name |-> "15MIN" ]
          [] k = "4" -> [ interval |-> None,  type |-> "multi", display_name |-> "MULTI-TF" ] ]

\* ATR multiples and the confluence threshold are counted in tenths
mode_config ==
    [ k \in {"1", "2", "3"} |->
        CASE k = "1" -> [ type |-> "scalping", timeframe_fixed |-> "15m",
                          tp_atr_multiple |-> 15, sl_atr_multiple |-> 10,
                          confluence_threshold |-> None ]
          [] k = "2" -> [ type |-> "instant", timeframe_fixed |-> None,
                          tp_atr_multiple |-> 25, sl_atr_multiple |-> 12,
                          confluence_threshold |-> None ]
          [] k = "3" -> [ type |-> "setup", timeframe_fixed |-> None,
                          tp_atr_multiple |-> 25, sl_atr_multiple |-> 12,
                          confluence_threshold |-> 20 ] ]

-----------------------------------------------------------------------------
(* Level calculator *)

LongActions  == {"BUY", "BUY_SETUP"}
ShortActions == {"SELL", "SELL_SETUP"}

\* _calculate_atr_levels with the TP and SL multiples exchanged
calculate_atr_levels_swapped(action, mode_type) ==
    LET decimals    == selected_asset.price_decimals
        tp_multiple == selected_mode.sl_atr_multiple
        sl_multiple == selected_mode.tp_atr_multiple
    IN  IF action \in LongActions
        THEN [ entry |-> Some(Round(10 * current_price, decimals)),
               tp    |-> Some(Round(10 * current_price + atr_value * tp_multiple, decimals)),
               sl    |-> Some(Round(10 * current_price - atr_value * sl_multiple, decimals)),
               levels_from |-> "atr" ]
        ELSE [ entry |-> Some(Round(10 * current_price, decimals)),
               tp    |-> Some(Round(10 * current_price - atr_value * tp_multiple, decimals)),
               sl    |-> Some(Round(10 * current_price + atr_value * sl_multiple, decimals)),
               levels_from |-> "atr" ]

\* _calculate_atr_levels(action, mode_type): the dict it returns.  levels_from
\* is bookkeeping of the model: which computation produced the levels.
calculate_atr_levels(action, mode_type) ==
    LET decimals    == selected_asset.price_decimals
        tp_multiple == selected_mode.tp_atr_multiple
        sl_multiple == selected_mode.sl_atr_multiple
    IN  IF action \in LongActions
        THEN [ entry |-> Some(Round(10 * current_price, decimals)),
               tp    |-> Some(Round(10 * current_price + atr_value * tp_multiple, decimals)),
               sl    |-> Some(Round(10 * current_price - atr_value * sl_multiple, decimals)),
               levels_from |-> "atr" ]
        ELSE [ entry |-> Some(Round(10 * current_price, decimals)),
               tp    |-> Some(Round(10 * current_price - atr_value * tp_multiple, decimals)),
               sl    |-> Some(Round(10 * current_price + atr_value * sl_multiple, decimals)),
               levels_from |-> "atr" ]


-----------------------------------------------------------------------------
(* Inputs: prices and ATR values the data provider can deliver *)

Range(f) == { f[x] : x \in DOMAIN f }

\* a typical quote of each asset, in sub-units: 1.10000, 1.25000, 2000.00, 30000.00
BasePrice(asset) ==
    CASE asset.display_name = "EURUSD"  -> 1100000
      [] asset.display_name = "GBPUSD"  -> 1250000
      [] asset.display_name = "XAUUSD"  -> 2000000
      [] asset.display_name = "BITCOIN" -> 30000000

\* a typical ATR of each asset, in sub-units: 0.00100, 0.00100, 5.00, 50.00
TypicalAtr(asset) ==
    CASE asset.display_name = "EURUSD"  -> 1000
      [] asset.display_name = "GBPUSD"  -> 1000
      [] asset.display_name = "XAUUSD"  -> 5000
      [] asset.display_name = "BITCOIN" -> 50000

-----------------------------------------------------------------------------
(* LevelSpec: _calculate_atr_levels called on every session state in bounds *)

LevelInit ==
    /\ pc = "levels"
    /\ selected_mode \in Range(mode_config)
    /\ selected_asset \in Range(asset_config)
    /\ selected_timeframe = None
    /\ \E off \in 0..MaxPriceOffset : current_price = BasePrice(selected_asset) + off
    /\ atr_value \in (0..MaxAtr) \cup {TypicalAtr(selected_asset)}
    /\ indicators = None
    /\ ai_signal = NoReply
    /\ atr_levels = None
    /\ signal = NoSignal
    /\ created_files = << >>
    /\ disk = {}
    /\ data_file = [ asset |-> Null, timeframes |-> << >> ]
    /\ run = 1
    /\ exit_status = Null
    /\ log_file = << >>
    /\ calls = NoCalls
    /\ produced = << >>

CalculateLevels ==
    /\ pc = "levels"
    /\ \E action \in LongActions \cup ShortActions :
         \* the function has no raise statement and no failing operation
         atr_levels' = [ action |-> action,
                         raised |-> None,
                         levels |-> calculate_atr_levels(action, selected_mode.type) ]
    /\ pc' = "levels_done"
    /\ UNCHANGED << selected_mode, selected_asset, selected_timeframe, current_price,
                    atr_value, indicators, ai_signal, signal, files >>
    /\ UNCHANGED process

LevelNext == CalculateLevels

LevelSpec == LevelInit /\ [][LevelNext]_vars

-----------------------------------------------------------------------------
(* Claims about the level calculator *)

Abs(x) == IF x < 0 THEN -x ELSE x

\* level (sub-units) is the multiple of the asset's unit nearest to exact
\* (tenths of a sub-unit): at most half a unit away
IsRounded(level, exact) == level % 10 = 0 /\ Abs(10 * level - exact) <= 50

\* the ATR multiples the specification gives per mode, in tenths
SpecTpMultiple(mode_type) == IF mode_type = "scalping" THEN 15 ELSE 25
SpecSlMultiple(mode_type) == IF mode_type = "scalping" THEN 10 ELSE 12

\* C3: for a long action the calculator returns entry = price, tp = price +
\* atr x tpMultiple, sl = price - atr x slMultiple, for a short action entry =
\* price, tp = price - atr x tpMultiple, sl = price + atr x slMultiple, each
\* rounded to the asset's decimals; Scenario A and Scenario B give the stated
\* values.
C3_LevelRule ==
    pc = "levels_done" =>
        LET a   == atr_levels.action
            L   == atr_levels.levels
            dir == IF a \in LongActions THEN 1 ELSE -1
            tpm == SpecTpMultiple(selected_mode.type)
            slm == SpecSlMultiple(selected_mode.type)
        IN  /\ IsRounded(ValueOf(L.entry), 10 * current_price)
            /\ IsRounded(ValueOf(L.tp), 10 * current_price + dir * atr_value * tpm)
            /\ IsRounded(ValueOf(L.sl), 10 * current_price - dir * atr_value * slm)
            /\ ( /\ selected_asset.display_name = "EURUSD"
                 /\ selected_mode.type = "instant"
                 /\ a = "BUY" /\ current_price = 1100000 /\ atr_value = 1000 )
               => ( /\ L.entry = Some(1100000)
                    /\ L.tp = Some(1102500)
                    /\ L.sl = Some(1098800) )
            /\ ( /\ selected_asset.display_name = "XAUUSD"
                 /\ selected_mode.type = "setup"
                 /\ a = "SELL_SETUP" /\ current_price = 2000000 /\ atr_value = 5000 )
               => ( /\ L.entry = Some(2000000)
                    /\ L.tp = Some(1987500)
                    /\ L.sl = Some(2006000) )

\* C3 witness: Scenario B has been computed
C3_Witness ==
    /\ pc = "levels_done"
    /\ selected_asset.display_name = "XAUUSD"
    /\ selected_mode.type = "setup"
    /\ atr_levels.action = "SELL_SETUP"
    /\ current_price = 2000000 /\ atr_value = 5000
    /\ atr_levels.levels.tp = Some(1987500)

\* L holds entry, tp and sl, none of them None
StrictlyOrdered(a, L) ==
    LET entry == ValueOf(L.entry)
        tp    == ValueOf(L.tp)
        sl    == ValueOf(L.sl)
    IN  IF a \in LongActions THEN tp > entry /\ entry > sl
                              ELSE tp < entry /\ entry < sl

\* C4: for every price, every atr > 0 and every mode the rounded levels are
\* strictly ordered (tp > entry > sl long, tp < entry < sl short).
C4_StrictForEveryPositiveAtr ==
    (pc = "levels_done" /\ atr_value > 0)
        => StrictlyOrdered(atr_levels.action, atr_levels.levels)

\* C5: with atr <= 0 the calculator fails with InvalidIndicatorState
\* and returns no levels.
C5_NonPositiveAtrFails ==
    (pc = "levels_done" /\ atr_value <= 0)
        => atr_levels.raised = "InvalidIndicatorState"


-----------------------------------------------------------------------------
(* Keywords the parser searches for *)

\* "BUY"
kwBUY ==
    << "B", "U", "Y" >>

\* "SELL"
kwSELL ==
    << "S", "E", "L", "L" >>

\* "BUY WHEN"
kwBUY_WHEN ==
    << "B", "U", "Y", " ", "W", "H", "E", "N" >>

\* "SELL WHEN"
kwSELL_WHEN ==
    << "S", "E", "L", "L", " ", "W", "H", "E", "N" >>

\* "DETAILED_ICT_EXPLANATION:"
kwMARKER ==
    << "D", "E", "T", "A", "I", "L", "E", "D", "_", "I", "C", "T", "_",
       "E", "X", "P", "L", "A", "N", "A", "T", "I", "O", "N", ":" >>

-----------------------------------------------------------------------------
(* Parser *)

\* dict.update(levels) on a signal.  levels_from is bookkeeping of the model,
\* no key of the dict: which computation produced entry, tp and sl
Update(sig, levels) ==
    [ sig EXCEPT !.entry = levels.entry, !.tp = levels.tp, !.sl = levels.sl,
                 !.levels_from = levels.levels_from ]

\* _extract_levels assigning the second number to sl and the third to tp
extract_levels_tp_sl_exchanged(response, action, mode_type) ==
    LET decimals == selected_asset.price_decimals
        numbers  == FindAllNumbers(response)
    IN  IF Len(numbers) >= 3
        THEN [ entry |-> Some(RoundFloat(Float(numbers[1]), decimals)),
               tp    |-> Some(RoundFloat(Float(numbers[3]), decimals)),
               sl    |-> Some(RoundFloat(Float(numbers[2]), decimals)),
               levels_from |-> "reply" ]
        ELSE calculate_atr_levels(action, mode_type)

\* _extract_levels leaving the levels unset when fewer than three numbers
\* are found
extract_levels_no_fallback(response, action, mode_type) ==
    LET decimals == selected_asset.price_decimals
        numbers  == FindAllNumbers(response)
    IN  IF Len(numbers) >= 3
        THEN [ entry |-> Some(RoundFloat(Float(numbers[1]), decimals)),
               tp    |-> Some(RoundFloat(Float(numbers[2]), decimals)),
               sl    |-> Some(RoundFloat(Float(numbers[3]), decimals)),
               levels_from |-> "reply" ]
        ELSE [ entry |-> IF Len(numbers) >= 1
                         THEN Some(RoundFloat(Float(numbers[1]), decimals)) ELSE Null,
               tp    |-> IF Len(numbers) >= 2
                         THEN Some(RoundFloat(Float(numbers[2]), decimals)) ELSE Null,
               sl    |-> Null,
               levels_from |-> "reply" ]

\* _extract_levels(response, action, mode_type).  float() accepts every match
\* of the pattern and round(x, decimals) every float, so for a text the try
\* block does not raise; its except branch is the same ATR fallback.
extract_levels(response, action, mode_type) ==
    LET decimals == selected_asset.price_decimals
        numbers  == FindAllNumbers(response)
    IN  IF Len(numbers) >= 3
        THEN [ entry |-> Some(RoundFloat(Float(numbers[1]), decimals)),
               tp    |-> Some(RoundFloat(Float(numbers[2]), decimals)),
               sl    |-> Some(RoundFloat(Float(numbers[3]), decimals)),
               levels_from |-> "reply" ]
        ELSE calculate_atr_levels(action, mode_type)

\* datetime.now()
Now == "now"

\* _parse_signal testing for SELL before BUY
parse_signal_sell_first(ai_response, mode_type) ==
    LET sig      == [ timestamp     |-> Now,
                      current_price |-> current_price,
                      action        |-> "WAIT",
                      entry         |-> Null,
                      tp            |-> Null,
                      sl            |-> Null,
                      confidence    |-> "AI",
                      raw_signal    |-> Strip(ai_response),
                      asset         |-> selected_asset.name,
                      mode          |-> mode_type,
                      levels_from   |-> None ]
        response == Strip(Upper(ai_response))
    IN  IF Contains(response, kwSELL)
        THEN Update([sig EXCEPT !.action = "SELL"],
                    extract_levels(response, "SELL", mode_type))
        ELSE IF Contains(response, kwBUY)
        THEN Update([sig EXCEPT !.action = "BUY"],
                    extract_levels(response, "BUY", mode_type))
        ELSE sig

\* _parse_signal classifying a text that holds both words by the word that
\* occurs first
parse_signal_by_first_occurrence(ai_response, mode_type) ==
    LET sig      == [ timestamp     |-> Now,
                      current_price |-> current_price,
                      action        |-> "WAIT",
                      entry         |-> Null,
                      tp            |-> Null,
                      sl            |-> Null,
                      confidence    |-> "AI",
                      raw_signal    |-> Strip(ai_response),
                      asset         |-> selected_asset.name,
                      mode          |-> mode_type,
                      levels_from   |-> None ]
        response == Strip(Upper(ai_response))
        buy      == Find(response, kwBUY)
        sell     == Find(response, kwSELL)
    IN  IF buy # 0 /\ (sell = 0 \/ buy < sell)
        THEN Update([sig EXCEPT !.action = "BUY"],
                    extract_levels(response, "BUY", mode_type))
        ELSE IF sell # 0
        THEN Update([sig EXCEPT !.action = "SELL"],
                    extract_levels(response, "SELL", mode_type))
        ELSE sig

\* _parse_signal keeping the normalised response, not the reply, as raw_signal
parse_signal_raw_uppercased(ai_response, mode_type) ==
    LET response == Strip(Upper(ai_response))
        sig      == [ timestamp     |-> Now,
                      current_price |-> current_price,
                      action        |-> "WAIT",
                      entry         |-> Null,
                      tp            |-> Null,
                      sl            |-> Null,
                      confidence    |-> "AI",
                      raw_signal    |-> response,
                      asset         |-> selected_asset.name,
                      mode          |-> mode_type,
                      levels_from   |-> None ]
    IN  IF mode_type = "setup"
        THEN IF Contains(response, kwBUY_WHEN)
             THEN Update([sig EXCEPT !.action = "BUY_SETUP"],
                         extract_levels(response, "BUY", mode_type))
             ELSE IF Contains(response, kwSELL_WHEN)
             THEN Update([sig EXCEPT !.action = "SELL_SETUP"],
                         extract_levels(response, "SELL", mode_type))
             ELSE sig
        ELSE IF Contains(response, kwBUY)
             THEN Update([sig EXCEPT !.action = "BUY"],
                         extract_levels(response, "BUY", mode_type))
             ELSE IF Contains(response, kwSELL)
             THEN Update([sig EXCEPT !.action = "SELL"],
                         extract_levels(response, "SELL", mode_type))
             ELSE sig

\* _parse_signal(ai_response, mode_type)
parse_signal(ai_response, mode_type) ==
    LET sig      == [ timestamp     |-> Now,
                      current_price |-> current_price,
                      action        |-> "WAIT",
                      entry         |-> Null,
                      tp            |-> Null,
                      sl            |-> Null,
                      confidence    |-> "AI",
                      raw_signal    |-> Strip(ai_response),
                      asset         |-> selected_asset.name,
                      mode          |-> mode_type,
                      levels_from   |-> None ]
        response == Strip(Upper(ai_response))
    IN  IF mode_type = "setup"
        THEN IF Contains(response, kwBUY_WHEN)
             THEN Update([sig EXCEPT !.action = "BUY_SETUP"],
                         extract_levels(response, "BUY", mode_type))
             ELSE IF Contains(response, kwSELL_WHEN)
             THEN Update([sig EXCEPT !.action = "SELL_SETUP"],
                         extract_levels(response, "SELL", mode_type))
             ELSE sig
        ELSE IF Contains(response, kwBUY)
             THEN Update([sig EXCEPT !.action = "BUY"],
                         extract_levels(response, "BUY", mode_type))
             ELSE IF Contains(response, kwSELL)
             THEN Update([sig EXCEPT !.action = "SELL"],
                         extract_levels(response, "SELL", mode_type))
             ELSE sig

\* response.split('DETAILED_ICT_EXPLANATION:')[0]
BeforeMarker(response) == SubSeq(response, 1, Find(response, kwMARKER) - 1)

\* response.split('DETAILED_ICT_EXPLANATION:')[1]: from the first marker to
\* the second one, or to the end
AfterMarker(response) ==
    LET rest == SubSeq(response, Find(response, kwMARKER) + Len(kwMARKER), Len(response))
    IN  IF Contains(rest, kwMARKER) THEN BeforeMarker(rest) ELSE rest

\* _parse_setup_signal_with_explanation(ai_response)
parse_setup_signal_with_explanation(ai_response) ==
    LET response       == Strip(ai_response)
        has_marker     == Contains(response, kwMARKER)
        signal_part    == IF has_marker THEN Strip(BeforeMarker(response)) ELSE response
        sig            == [ timestamp       |-> Now,
                            current_price   |-> current_price,
                            action          |-> "WAIT",
                            entry           |-> Null,
                            tp              |-> Null,
                            sl              |-> Null,
                            confidence      |-> "AI",
                            raw_signal      |-> Strip(ai_response),
                            asset           |-> selected_asset.name,
                            mode            |-> "setup",
                            ict_explanation |->
                                IF has_marker THEN Some(Strip(AfterMarker(response)))
                                              ELSE Null,
                            levels_from     |-> None ]
        response_upper == Strip(Upper(signal_part))
    IN  IF Contains(response_upper, kwBUY_WHEN)
        THEN Update([sig EXCEPT !.action = "BUY_SETUP"],
                    extract_levels(signal_part, "BUY", "setup"))
        ELSE IF Contains(response_upper, kwSELL_WHEN)
        THEN Update([sig EXCEPT !.action = "SELL_SETUP"],
                    extract_levels(signal_part, "SELL", "setup"))
        ELSE sig

-----------------------------------------------------------------------------
(* Replies of the language model *)

\* "BUY 1.1050 TP:1.1100 SL:1.1020 - breakout"
ReplyScenarioC ==
    << "B", "U", "Y", " ", "1", ".", "1", "0", "5", "0", " ", "T", "P",
       ":", "1", ".", "1", "1", "0", "0", " ", "S", "L", ":", "1", ".",
       "1", "0", "2", "0", " ", "-", " ", "b", "r", "e", "a", "k", "o",
       "u", "t" >>

\* "WAIT - no clear setup"
ReplyScenarioD ==
    << "W", "A", "I", "T", " ", "-", " ", "n", "o", " ", "c", "l", "e",
       "a", "r", " ", "s", "e", "t", "u", "p" >>

\* "SELL 1.1050 TP:1.1000 SL:1.1100 - no buyers"
ReplySellNoBuyers ==
    << "S", "E", "L", "L", " ", "1", ".", "1", "0", "5", "0", " ", "T",
       "P", ":", "1", ".", "1", "0", "0", "0", " ", "S", "L", ":", "1",
       ".", "1", "1", "0", "0", " ", "-", " ", "n", "o", " ", "b", "u",
       "y", "e", "r", "s" >>

\* "BUY 1.1050 TP:1.1000 SL:1.1100"
ReplyBuyInverted ==
    << "B", "U", "Y", " ", "1", ".", "1", "0", "5", "0", " ", "T", "P",
       ":", "1", ".", "1", "0", "0", "0", " ", "S", "L", ":", "1", ".",
       "1", "1", "0", "0" >>

\* "WAIT - do not buy yet"
ReplyWaitDoNotBuy ==
    << "W", "A", "I", "T", " ", "-", " ", "d", "o", " ", "n", "o", "t",
       " ", "b", "u", "y", " ", "y", "e", "t" >>

\* " buy 1.105034 1.2 1.05 1.3\n"
ReplyPaddedFourNumbers ==
    << " ", "b", "u", "y", " ", "1", ".", "1", "0", "5", "0", "3", "4",
       " ", "1", ".", "2", " ", "1", ".", "0", "5", " ", "1", ".", "3",
       "\n" >>

\* "Sell 2000.456 TP:1987.5 SL:2006. - supply"
ReplyGoldSell ==
    << "S", "e", "l", "l", " ", "2", "0", "0", "0", ".", "4", "5", "6",
       " ", "T", "P", ":", "1", "9", "8", "7", ".", "5", " ", "S", "L",
       ":", "2", "0", "0", "6", ".", " ", "-", " ", "s", "u", "p", "p",
       "l", "y" >>

\* "BUY WHEN >= 1.1050 TP:1.1100 SL:1.1020 - ob\nDETAILED_ICT_EXPLANATION:\n* sell when 1.2"
ReplySetupExplained ==
    << "B", "U", "Y", " ", "W", "H", "E", "N", " ", ">", "=", " ", "1",
       ".", "1", "0", "5", "0", " ", "T", "P", ":", "1", ".", "1", "1",
       "0", "0", " ", "S", "L", ":", "1", ".", "1", "0", "2", "0", " ",
       "-", " ", "o", "b", "\n", "D", "E", "T", "A", "I", "L", "E", "D",
       "_", "I", "C", "T", "_", "E", "X", "P", "L", "A", "N", "A", "T",
       "I", "O", "N", ":", "\n", "*", " ", "s", "e", "l", "l", " ", "w",
       "h", "e", "n", " ", "1", ".", "2" >>

\* "sell when <= 1.1050 TP:1.1000 SL:1.1100 - sweep"
ReplySetupSell ==
    << "s", "e", "l", "l", " ", "w", "h", "e", "n", " ", "<", "=", " ",
       "1", ".", "1", "0", "5", "0", " ", "T", "P", ":", "1", ".", "1",
       "0", "0", "0", " ", "S", "L", ":", "1", ".", "1", "1", "0", "0",
       " ", "-", " ", "s", "w", "e", "e", "p" >>

\* "BUY WHEN 1.1050 DETAILED_ICT_EXPLANATION: 1.2 1.3"
ReplySetupNumbersInTail ==
    << "B", "U", "Y", " ", "W", "H", "E", "N", " ", "1", ".", "1", "0",
       "5", "0", " ", "D", "E", "T", "A", "I", "L", "E", "D", "_", "I",
       "C", "T", "_", "E", "X", "P", "L", "A", "N", "A", "T", "I", "O",
       "N", ":", " ", "1", ".", "2", " ", "1", ".", "3" >>

\* "BUY AFTER SWEEP OF 1.0850 >= 1.0860 TP:1.0900 SL:1.0840"
ReplyMultiSweep ==
    << "B", "U", "Y", " ", "A", "F", "T", "E", "R", " ", "S", "W", "E",
       "E", "P", " ", "O", "F", " ", "1", ".", "0", "8", "5", "0", " ",
       ">", "=", " ", "1", ".", "0", "8", "6", "0", " ", "T", "P", ":",
       "1", ".", "0", "9", "0", "0", " ", "S", "L", ":", "1", ".", "0",
       "8", "4", "0" >>

\* replies in the formats the prompts ask for, and departures from them
ScenarioReplies ==
    { ReplyScenarioC, ReplyScenarioD, ReplySellNoBuyers, ReplyBuyInverted,
      ReplyWaitDoNotBuy, ReplyPaddedFourNumbers, ReplyGoldSell,
      ReplySetupExplained, ReplySetupSell, ReplySetupNumbersInTail,
      ReplyMultiSweep }

\* "BUY"
wBUY ==
    << "B", "U", "Y" >>

\* "buy"
wbuy ==
    << "b", "u", "y" >>

\* "SELL"
wSELL ==
    << "S", "E", "L", "L" >>

\* "WHEN"
wWHEN ==
    << "W", "H", "E", "N" >>

\* "wait"
wwait ==
    << "w", "a", "i", "t" >>

\* "1.1050"
wNumber ==
    << "1", ".", "1", "0", "5", "0" >>

\* "TP:1.1100,SL:1.1020"
wTwoNumbers ==
    << "T", "P", ":", "1", ".", "1", "1", "0", "0", ",", "S", "L", ":",
       "1", ".", "1", "0", "2", "0" >>

GenWords == { wBUY, wbuy, wSELL, wWHEN, wwait, wNumber, wTwoNumbers, kwMARKER }

\* the texts of exactly n words of GenWords, separated by single spaces
RECURSIVE TextsOfWords(_)
TextsOfWords(n) ==
    IF n = 0 THEN { << >> }
    ELSE IF n = 1 THEN GenWords
    ELSE { t \o << " " >> \o w : t \in TextsOfWords(n - 1), w \in GenWords }

GeneratedReplies == UNION { TextsOfWords(n) : n \in 0..MaxWords }

\* " \n"
ReplyBlank ==
    << " ", "\n" >>

\* "  sell 1.1050 soon\n"
ReplyPaddedSell ==
    << " ", " ", "s", "e", "l", "l", " ", "1", ".", "1", "0", "5", "0", " ",
       "s", "o", "o", "n", "\n" >>

\* replies that are blank or padded with whitespace
EdgeReplies == { ReplyBlank, ReplyPaddedSell }

Replies == ScenarioReplies \cup GeneratedReplies \cup EdgeReplies


-----------------------------------------------------------------------------
(* ParserSpec: the two parsers called, as the generators call them, on every *)
(* reply in bounds                                                          *)

\* the timeframes select_timeframe can leave selected for a mode
TimeframesOf(mode) ==
    IF mode.timeframe_fixed # None
    THEN { tf \in Range(timeframe_config) : tf.interval = mode.timeframe_fixed }
    ELSE Range(timeframe_config)

\* the mode_type the generators pass to _parse_signal
ParseModeType ==
    IF selected_timeframe.type = "multi" THEN "multi" ELSE selected_mode.type

ParserInit ==
    /\ pc = "parse"
    /\ selected_mode \in Range(mode_config)
    /\ selected_asset \in Range(asset_config)
    /\ selected_timeframe \in TimeframesOf(selected_mode)
    /\ current_price \in { BasePrice(selected_asset), BasePrice(selected_asset) + 5 }
    /\ atr_value \in { 0, TypicalAtr(selected_asset) }
    /\ indicators = None
    /\ ai_signal \in Replies
    /\ atr_levels = None
    /\ signal = NoSignal
    /\ created_files = << >>
    /\ disk = {}
    /\ data_file = [ asset |-> Null, timeframes |-> << >> ]
    /\ run = 1
    /\ exit_status = Null
    /\ log_file = << >>
    /\ calls = NoCalls
    /\ produced = << >>

\* generate_signal dispatches to a generator that calls _parse_signal
CallParseSignal ==
    /\ pc = "parse"
    /\ selected_timeframe.type = "multi" \/ selected_mode.type \in {"scalping", "instant"}
    /\ signal' = parse_signal(ai_signal, ParseModeType)
    /\ pc' = "parsed"
    /\ UNCHANGED << selected_mode, selected_asset, selected_timeframe, current_price,
                    atr_value, indicators, ai_signal, atr_levels, files >>
    /\ UNCHANGED process

\* generate_signal dispatches to _generate_setup_signal
CallParseSetupSignal ==
    /\ pc = "parse"
    /\ selected_timeframe.type # "multi" /\ selected_mode.type = "setup"
    /\ signal' = parse_setup_signal_with_explanation(ai_signal)
    /\ pc' = "parsed"
    /\ UNCHANGED << selected_mode, selected_asset, selected_timeframe, current_price,
                    atr_value, indicators, ai_signal, atr_levels, files >>
    /\ UNCHANGED process

ParserNext == CallParseSignal \/ CallParseSetupSignal

ParserSpec == ParserInit /\ [][ParserNext]_vars

-----------------------------------------------------------------------------
(* Claims about the parser *)

\* kw (upper case) occurs in text at position i, letter case ignored
OccursAt(text, kw, i) ==
    /\ i + Len(kw) - 1 <= Len(text)
    /\ \A j \in 1..Len(kw) : UpperChar(text[i + j - 1]) = kw[j]

HasWord(text, kw) == \E i \in 1..Len(text) : OccursAt(text, kw, i)

FirstOccurrence(text, kw) ==
    CHOOSE i \in 1..Len(text) :
        OccursAt(text, kw, i) /\ \A k \in 1..(i - 1) : ~OccursAt(text, kw, k)

NoLevels(sig) == sig.entry = Null /\ sig.tp = Null /\ sig.sl = Null

AllLevels(sig) == sig.entry # Null /\ sig.tp # Null /\ sig.sl # Null

\* the text whose numbers the parser reads: the reply, or in setup mode the
\* part of it before the explanation marker
TextForLevels ==
    IF signal.mode = "setup" /\ Contains(ai_signal, kwMARKER)
    THEN BeforeMarker(ai_signal)
    ELSE ai_signal

\* the n-th number of a text rounded to the selected asset's decimals
NumberOf(text, n) ==
    RoundFloat(Float(FindAllNumbers(text)[n]), selected_asset.price_decimals)

C9_ActionClassification ==
    (pc = "parsed" /\ signal.mode # "setup") =>
        /\ signal.action =
             IF HasWord(ai_signal, kwBUY) THEN "BUY"
             ELSE IF HasWord(ai_signal, kwSELL) THEN "SELL"
             ELSE "WAIT"
        /\ signal.action = "WAIT" => NoLevels(signal)
        /\ signal.action # "WAIT" => AllLevels(signal)

\* C9 witness: a lower-case sell, with no buy in the text, was classified SELL
C9_Witness ==
    /\ pc = "parsed"
    /\ signal.mode # "setup"
    /\ ai_signal = ReplySetupSell
    /\ signal.action = "SELL"

Actions == { "BUY", "SELL", "BUY_SETUP", "SELL_SETUP", "WAIT" }

ReplyDerivedSignal ==
    IF selected_timeframe.type # "multi" /\ selected_mode.type = "setup"
    THEN parse_setup_signal_with_explanation(ReplySetupSell)
    ELSE parse_signal(ReplyScenarioC, ParseModeType)

\* C12: a Signal whose entry, tp and sl were computed by the ATR fallback
\* inside the parser carries a confidence tag different from the tag of a
\* Signal whose levels were read from the model's reply.
C12_ProvenanceTag ==
    (pc = "parsed" /\ signal.levels_from = "atr")
        => /\ ReplyDerivedSignal.levels_from = "reply"
           /\ signal.confidence # ReplyDerivedSignal.confidence

-----------------------------------------------------------------------------
(* Confluence scoring and the rule-based signals of the generators *)

Max(a, b) == IF a >= b THEN a ELSE b
Min(a, b) == IF a <= b THEN a ELSE b

\* the last three elements of a list: data.tail(3), list[-3:]
Tail3(seq) == SubSeq(seq, Max(1, Len(seq) - 2), Len(seq))

\* the scalping scorer counting a bullish structure for the short side as well
pine_confluence_structure_both(pine) ==
    LET One(c) == IF c THEN 1 ELSE 0
    IN  [ long_signals  |-> One(pine.recent_ob_bull) + One(pine.recent_fvg_up)
                            + One(pine.current_structure = 1)
                            + One(pine.displacement_bias = "bullish"),
          short_signals |-> One(pine.recent_ob_bear) + One(pine.recent_fvg_down)
                            + One(pine.current_structure # 0)
                            + One(pine.displacement_bias = "bearish") ]

\* the counts _generate_scalping_signal builds from the Pine engine's signals
pine_confluence(pine) ==
    LET One(c) == IF c THEN 1 ELSE 0
    IN  [ long_signals  |-> One(pine.recent_ob_bull) + One(pine.recent_fvg_up)
                            + One(pine.current_structure = 1)
                            + One(pine.displacement_bias = "bullish"),
          short_signals |-> One(pine.recent_ob_bear) + One(pine.recent_fvg_down)
                            + One(pine.current_structure = -1)
                            + One(pine.displacement_bias = "bearish") ]

\* _fallback_signal asking for an average confluence of 2.0 instead of 1.5
fallback_signal_threshold_two(long_conf, short_conf, mode_type) ==
    LET sig == [ timestamp     |-> Now,
                 current_price |-> current_price,
                 action        |-> "WAIT",
                 entry         |-> Some(current_price),
                 tp            |-> Null,
                 sl            |-> Null,
                 confidence    |-> "ICT",
                 raw_signal    |-> << "Fallback analysis" >>,
                 asset         |-> selected_asset.name,
                 mode          |-> mode_type,
                 levels_from   |-> None ]
    IN  IF mode_type = "setup"
           /\ Max(long_conf, short_conf) < selected_mode.confluence_threshold
        THEN [ reason |-> << "Low confluence (max: ",
                             ToString(Max(long_conf, short_conf)), ")" >> ] @@ sig
        ELSE IF long_conf > short_conf /\ long_conf >= 20
        THEN Update([sig EXCEPT !.action = IF mode_type = "setup" THEN "BUY_SETUP" ELSE "BUY"],
                    calculate_atr_levels("BUY", mode_type))
        ELSE IF short_conf > long_conf /\ short_conf >= 20
        THEN Update([sig EXCEPT !.action = IF mode_type = "setup" THEN "SELL_SETUP" ELSE "SELL"],
                    calculate_atr_levels("SELL", mode_type))
        ELSE sig

\* _fallback_pine_signal(long_signals, short_signals, mode_type)

\* _fallback_signal(long_conf, short_conf, mode_type); confluences in tenths
fallback_signal(long_conf, short_conf, mode_type) ==
    LET sig == [ timestamp     |-> Now,
                 current_price |-> current_price,
                 action        |-> "WAIT",
                 entry         |-> Some(current_price),
                 tp            |-> Null,
                 sl            |-> Null,
                 confidence    |-> "ICT",
                 raw_signal    |-> << "Fallback analysis" >>,
                 asset         |-> selected_asset.name,
                 mode          |-> mode_type,
                 levels_from   |-> None ]
    IN  IF mode_type = "setup"
           /\ Max(long_conf, short_conf) < selected_mode.confluence_threshold
        THEN [ reason |-> << "Low confluence (max: ",
                             ToString(Max(long_conf, short_conf)), ")" >> ] @@ sig
        ELSE IF long_conf > short_conf /\ long_conf >= 15
        THEN Update([sig EXCEPT !.action = IF mode_type = "setup" THEN "BUY_SETUP" ELSE "BUY"],
                    calculate_atr_levels("BUY", mode_type))
        ELSE IF short_conf > long_conf /\ short_conf >= 15
        THEN Update([sig EXCEPT !.action = IF mode_type = "setup" THEN "SELL_SETUP" ELSE "SELL"],
                    calculate_atr_levels("SELL", mode_type))
        ELSE sig

\* _fallback_pine_signal(long_signals, short_signals, mode_type)
fallback_pine_signal(long_signals, short_signals, mode_type) ==
    LET sig == [ timestamp     |-> Now,
                 current_price |-> current_price,
                 action        |-> "WAIT",
                 entry         |-> Some(current_price),
                 tp            |-> Null,
                 sl            |-> Null,
                 confidence    |-> "Pine Script ICT",
                 raw_signal    |-> << "Pine Script fallback: Long=", ToString(long_signals),
                                      ", Short=", ToString(short_signals) >>,
                 asset         |-> selected_asset.name,
                 mode          |-> mode_type,
                 levels_from   |-> None ]
    IN  IF mode_type = "setup" /\ Max(long_signals, short_signals) < 2
        THEN [ reason |-> << "Low Pine Script signals (max: ",
                             ToString(Max(long_signals, short_signals)), ")" >> ] @@ sig
        ELSE IF long_signals > short_signals /\ long_signals >= 2
        THEN Update([sig EXCEPT !.action = IF mode_type = "setup" THEN "BUY_SETUP" ELSE "BUY"],
                    calculate_atr_levels("BUY", mode_type))
        ELSE IF short_signals > long_signals /\ short_signals >= 2
        THEN Update([sig EXCEPT !.action = IF mode_type = "setup" THEN "SELL_SETUP" ELSE "SELL"],
                    calculate_atr_levels("SELL", mode_type))
        ELSE sig

\* list.sort(key=distance), which is stable: x put behind every element that
\* is not farther than x
RECURSIVE InsertByDistance(_, _)
InsertByDistance(sorted, x) ==
    IF sorted = << >> THEN << x >>
    ELSE IF Head(sorted).distance <= x.distance
    THEN << Head(sorted) >> \o InsertByDistance(Tail(sorted), x)
    ELSE << x >> \o sorted

RECURSIVE SortByDistance(_)
SortByDistance(seq) ==
    IF seq = << >> THEN << >>
    ELSE InsertByDistance(SortByDistance(SubSeq(seq, 1, Len(seq) - 1)), seq[Len(seq)])

\* _find_recent_swings(data, swing_type): pivots holds the prices of the rows
\* of recent_data whose pivot column is set, oldest first
find_recent_swings(pivots) ==
    LET last3  == Tail3(pivots)
        swings == [ i \in 1..Len(last3) |->
                      [ price |-> last3[i], distance |-> Abs(current_price - last3[i]) ] ]
        sorted == SortByDistance(swings)
    IN  SubSeq(sorted, 1, Min(2, Len(sorted)))

\* one entry of the lists _get_active_ict_levels returns
ActiveLevel(zone) ==
    [ top |-> zone.top, btm |-> zone.btm,
      distance |-> Min(Abs(current_price - zone.top), Abs(current_price - zone.btm)) ]

\* _get_active_ict_levels()
get_active_ict_levels(pine) ==
    LET Unbroken(ob) == ~ob.breaker
        Active(fvg)  == fvg.active
        Levels(zones) == [ i \in 1..Len(zones) |-> ActiveLevel(zones[i]) ]
    IN  [ bullish_obs |-> Levels(SelectSeq(Tail3(pine.bullish_obs), Unbroken)),
          bearish_obs |-> Levels(SelectSeq(Tail3(pine.bearish_obs), Unbroken)),
          fvg_up      |-> Levels(SelectSeq(Tail3(pine.fvg_up), Active)),
          fvg_down    |-> Levels(SelectSeq(Tail3(pine.fvg_down), Active)) ]

\* _calculate_setup_levels(swing_highs, swing_lows, active_obs); the lines of
\* confluence_text are kept as a list of factors
calculate_setup_levels(swing_highs, swing_lows, active_obs) ==
    LET swing_high == IF swing_highs # << >> THEN swing_highs[1].price
                                             ELSE current_price + atr_value
        swing_low  == IF swing_lows # << >> THEN swing_lows[1].price
                                            ELSE current_price - atr_value
        price_position ==
            IF 2 * current_price > swing_high + swing_low
            THEN "Upper range (near resistance)"
            ELSE IF 2 * current_price < swing_high + swing_low
            THEN "Lower range (near support)"
            ELSE "Mid-range"
        NearBtmOB(ob)   == 2 * Abs(current_price - ob.btm) < atr_value
        NearTopOB(ob)   == 2 * Abs(current_price - ob.top) < atr_value
        NearBtmFVG(fvg) == 10 * Abs(current_price - fvg.btm) < 3 * atr_value
        NearTopFVG(fvg) == 10 * Abs(current_price - fvg.top) < 3 * atr_value
        Factors(kind, levels) ==
            [ i \in 1..Len(levels) |-> << kind, ToString(levels[i]) >> ]
        BtmOf(zones) == [ i \in 1..Len(zones) |-> zones[i].btm ]
        TopOf(zones) == [ i \in 1..Len(zones) |-> zones[i].top ]
        found ==
            Factors("Near Bullish OB support at $",
                    BtmOf(SelectSeq(active_obs.bullish_obs, NearBtmOB)))
            \o Factors("Near Bearish OB resistance at $",
                       TopOf(SelectSeq(active_obs.bearish_obs, NearTopOB)))
            \o Factors("Near Bullish FVG at $",
                       BtmOf(SelectSeq(active_obs.fvg_up, NearBtmFVG)))
            \o Factors("Near Bearish FVG at $",
                       TopOf(SelectSeq(active_obs.fvg_down, NearTopFVG)))
        confluence_factors ==
            IF found = << >>
            THEN << << "Price between key levels - monitor for breakout" >> >>
            ELSE found
    IN  [ swing_high       |-> swing_high,
          swing_low        |-> swing_low,
          price_position   |-> price_position,
          confluence_text  |-> confluence_factors,
          confluence_count |-> Len(confluence_factors) ]

\* _fallback_swing_setup(setup_data)
fallback_swing_setup(setup_data, pine) ==
    LET decimals   == selected_asset.price_decimals
        pip_buffer == selected_asset.pip_buffer * selected_asset.pip_value
        sig == [ timestamp       |-> Now,
                 current_price   |-> current_price,
                 action          |-> "WAIT",
                 entry           |-> Some(current_price),
                 tp              |-> Null,
                 sl              |-> Null,
                 confidence      |-> "Pine Script ICT",
                 asset           |-> selected_asset.name,
                 mode            |-> "setup",
                 ict_explanation |-> Null,
                 levels_from     |-> None ]
        swing_high == setup_data.swing_high
        swing_low  == setup_data.swing_low
        market_structure == pine.current_structure
        \* the entry is set to the buffered swing level, and then overwritten
        \* by the update with the calculator's levels
        buy  == Update([sig EXCEPT !.action = "BUY_SETUP",
                                   !.entry = Some(Round(10 * (swing_low + pip_buffer), decimals))],
                       calculate_atr_levels("BUY", "setup"))
        sell == Update([sig EXCEPT !.action = "SELL_SETUP",
                                   !.entry = Some(Round(10 * (swing_high - pip_buffer), decimals))],
                       calculate_atr_levels("SELL", "setup"))
    IN  IF market_structure = 1 /\ current_price < swing_low + pip_buffer
        THEN [ raw_signal |-> << "BUY WHEN >= $", ToString(ValueOf(buy.entry)),
                                 " - Swing low support in bullish structure" >> ]
             @@ [ buy EXCEPT !.ict_explanation =
                      Some(<< "Market Structure: Bullish", ToString(swing_low) >>) ]
        ELSE IF market_structure = -1 /\ current_price > swing_high - pip_buffer
        THEN [ raw_signal |-> << "SELL WHEN <= $", ToString(ValueOf(sell.entry)),
                                 " - Swing high resistance in bearish structure" >> ]
             @@ [ sell EXCEPT !.ict_explanation =
                      Some(<< "Market Structure: Bearish", ToString(swing_high) >>) ]
        ELSE [ raw_signal |-> << "No clear swing setup - Price: $", ToString(current_price),
                                 ", Swing Range: $", ToString(swing_low), " - $",
                                 ToString(swing_high) >> ]
             @@ [ sig EXCEPT !.ict_explanation =
                      Some(<< "Market Structure: Neutral/Unclear" >>) ]

\* "bullish"
wbullish == << "b", "u", "l", "l", "i", "s", "h" >>

\* "bearish"
wbearish == << "b", "e", "a", "r", "i", "s", "h" >>

\* "neutral"
wneutral == << "n", "e", "u", "t", "r", "a", "l" >>

\* "Bullish"
wBullish == << "B", "u", "l", "l", "i", "s", "h" >>

\* "BEARISH"
wBEARISH == << "B", "E", "A", "R", "I", "S", "H" >>

\* the elements of a list
Elements(seq) == { seq[i] : i \in 1..Len(seq) }

SetMax(S) == CHOOSE x \in S : \A y \in S : y <= x
SetMin(S) == CHOOSE x \in S : \A y \in S : x <= y

\* the confluences _fallback_multi_timeframe_signal computes, in tenths
multi_confluence(analysis) ==
    LET daily_bias   == Lower(analysis.daily_bias)
        h1_trend     == Lower(analysis.h1_trend)
        h1_momentum  == Lower(analysis.h1_momentum)
        Weight(c, w) == IF c THEN w ELSE 0
    IN  [ long_confluence  |-> Weight(daily_bias = wbullish, 10)
                               + Weight(analysis.h4_structure = 1, 10)
                               + Weight(h1_trend = wbullish, 10)
                               + Weight(h1_momentum = wbullish, 5),
          short_confluence |-> Weight(daily_bias = wbearish, 10)
                               + Weight(analysis.h4_structure = -1, 10)
                               + Weight(h1_trend = wbearish, 10)
                               + Weight(h1_momentum = wbearish, 5) ]

\* _fallback_multi_timeframe_signal aiming a BUY_SETUP 2.5 ATR above the entry
\* whether or not a resistance lies above the price
fallback_multi_timeframe_signal_atr_target(analysis) ==
    LET decimals == selected_asset.price_decimals
        conf     == multi_confluence(analysis)
        support_levels    == { l \in Elements(analysis.h4_support) : l < current_price }
        resistance_levels == { l \in Elements(analysis.h4_resistance) : l > current_price }
        nearest_support ==
            IF support_levels # {} THEN 10 * SetMax(support_levels)
                                   ELSE 10 * current_price - atr_value * 20
        nearest_resistance ==
            IF resistance_levels # {} THEN 10 * SetMin(resistance_levels)
                                      ELSE 10 * current_price + atr_value * 20
        buy_entry  == nearest_support + atr_value * 2
        sell_entry == nearest_resistance - atr_value * 2
        zones == IF analysis.m15_entry_zones # << >>
                 THEN << "Validate with 15M entry zones" >> ELSE << >>
        sig == [ timestamp     |-> Now,
                 current_price |-> current_price,
                 asset         |-> selected_asset.name,
                 confidence    |-> "Multi-TF ICT",
                 mode          |-> "multi",
                 levels_from   |-> "levels" ]
    IN  IF conf.long_confluence >= conf.short_confluence
        THEN [ action |-> "BUY_SETUP",
               entry  |-> Some(Round(buy_entry, decimals)),
               sl     |-> Some(Round(nearest_support - atr_value * 10, decimals)),
               tp     |-> Some(Round(buy_entry + atr_value * 25, decimals)),
               raw_signal |-> << "BUY SETUP - Bullish bias (Confluence: ",
                                 ToString(conf.long_confluence), ")" >> \o zones ] @@ sig
        ELSE [ action |-> "SELL_SETUP",
               entry  |-> Some(Round(sell_entry, decimals)),
               sl     |-> Some(Round(nearest_resistance + atr_value * 10, decimals)),
               tp     |-> Some(Round(IF support_levels # {} THEN nearest_support
                                     ELSE sell_entry - atr_value * 25, decimals)),
               raw_signal |-> << "SELL SETUP - Bearish bias (Confluence: ",
                                 ToString(conf.short_confluence), ")" >> \o zones ] @@ sig

\* _fallback_multi_timeframe_signal selling on equal confluence
fallback_multi_timeframe_signal_tie_sells(analysis) ==
    LET decimals == selected_asset.price_decimals
        conf     == multi_confluence(analysis)
        support_levels    == { l \in Elements(analysis.h4_support) : l < current_price }
        resistance_levels == { l \in Elements(analysis.h4_resistance) : l > current_price }
        nearest_support ==
            IF support_levels # {} THEN 10 * SetMax(support_levels)
                                   ELSE 10 * current_price - atr_value * 20
        nearest_resistance ==
            IF resistance_levels # {} THEN 10 * SetMin(resistance_levels)
                                      ELSE 10 * current_price + atr_value * 20
        buy_entry  == nearest_support + atr_value * 2
        sell_entry == nearest_resistance - atr_value * 2
        zones == IF analysis.m15_entry_zones # << >>
                 THEN << "Validate with 15M entry zones" >> ELSE << >>
        sig == [ timestamp     |-> Now,
                 current_price |-> current_price,
                 asset         |-> selected_asset.name,
                 confidence    |-> "Multi-TF ICT",
                 mode          |-> "multi",
                 levels_from   |-> "levels" ]
    IN  IF conf.long_confluence > conf.short_confluence
        THEN [ action |-> "BUY_SETUP",
               entry  |-> Some(Round(buy_entry, decimals)),
               sl     |-> Some(Round(nearest_support - atr_value * 10, decimals)),
               tp     |-> Some(Round(IF resistance_levels # {} THEN nearest_resistance
                                     ELSE buy_entry + atr_value * 25, decimals)),
               raw_signal |-> << "BUY SETUP - Bullish bias (Confluence: ",
                                 ToString(conf.long_confluence), ")" >> \o zones ] @@ sig
        ELSE [ action |-> "SELL_SETUP",
               entry  |-> Some(Round(sell_entry, decimals)),
               sl     |-> Some(Round(nearest_resistance + atr_value * 10, decimals)),
               tp     |-> Some(Round(IF support_levels # {} THEN nearest_support
                                     ELSE sell_entry - atr_value * 25, decimals)),
               raw_signal |-> << "SELL SETUP - Bearish bias (Confluence: ",
                                 ToString(conf.short_confluence), ")" >> \o zones ] @@ sig

\* _fallback_multi_timeframe_signal(analysis); the prices before rounding are
\* counted in tenths of a sub-unit
fallback_multi_timeframe_signal(analysis) ==
    LET decimals == selected_asset.price_decimals
        conf     == multi_confluence(analysis)
        support_levels    == { l \in Elements(analysis.h4_support) : l < current_price }
        resistance_levels == { l \in Elements(analysis.h4_resistance) : l > current_price }
        nearest_support ==
            IF support_levels # {} THEN 10 * SetMax(support_levels)
                                   ELSE 10 * current_price - atr_value * 20
        nearest_resistance ==
            IF resistance_levels # {} THEN 10 * SetMin(resistance_levels)
                                      ELSE 10 * current_price + atr_value * 20
        buy_entry  == nearest_support + atr_value * 2
        sell_entry == nearest_resistance - atr_value * 2
        zones == IF analysis.m15_entry_zones # << >>
                 THEN << "Validate with 15M entry zones" >> ELSE << >>
        sig == [ timestamp     |-> Now,
                 current_price |-> current_price,
                 asset         |-> selected_asset.name,
                 confidence    |-> "Multi-TF ICT",
                 mode          |-> "multi",
                 levels_from   |-> "levels" ]
    IN  IF conf.long_confluence >= conf.short_confluence
        THEN [ action |-> "BUY_SETUP",
               entry  |-> Some(Round(buy_entry, decimals)),
               sl     |-> Some(Round(nearest_support - atr_value * 10, decimals)),
               tp     |-> Some(Round(IF resistance_levels # {} THEN nearest_resistance
                                     ELSE buy_entry + atr_value * 25, decimals)),
               raw_signal |-> << "BUY SETUP - Bullish bias (Confluence: ",
                                 ToString(conf.long_confluence), ")" >> \o zones ] @@ sig
        ELSE [ action |-> "SELL_SETUP",
               entry  |-> Some(Round(sell_entry, decimals)),
               sl     |-> Some(Round(nearest_resistance + atr_value * 10, decimals)),
               tp     |-> Some(Round(IF support_levels # {} THEN nearest_support
                                     ELSE sell_entry - atr_value * 25, decimals)),
               raw_signal |-> << "SELL SETUP - Bearish bias (Confluence: ",
                                 ToString(conf.short_confluence), ")" >> \o zones ] @@ sig

-----------------------------------------------------------------------------
(* Inputs of a run: what the data provider and the indicator engines deliver *)

\* prices and ATR values of a run: a quote on a unit of the asset's precision
\* and one between two units; no range at all, a range below one unit, and a
\* typical one
RunPrices(asset) == { BasePrice(asset), BasePrice(asset) + 5 }
RunAtrs(asset)   == { 0, 2, TypicalAtr(asset) }

NoZones == << >>

\* what the two indicator engines hold after a single-timeframe analysis:
\* the Pine engine's latest signals, summary, pivots and zones, and the
\* averages of the ICT analyzer's confluence columns over the last ten
\* candles (in tenths)
IndicatorSnapshots(asset) ==
    LET b == BasePrice(asset)
        a == TypicalAtr(asset)
        quiet ==
            [ recent_ob_bull |-> FALSE, recent_ob_bear |-> FALSE,
              recent_fvg_up |-> FALSE, recent_fvg_down |-> FALSE,
              current_structure |-> 0, displacement_bias |-> "neutral",
              pivot_high |-> << >>, pivot_low |-> << >>,
              bullish_obs |-> NoZones, bearish_obs |-> NoZones,
              fvg_up |-> NoZones, fvg_down |-> NoZones ]
    IN  { \* nothing on either side
          [ pine |-> quiet,
            analyzer |-> [ confluence_long |-> 0, confluence_short |-> 0 ] ],
          \* a bullish structure alone, price at a swing low
          [ pine |-> [ quiet EXCEPT !.current_structure = 1,
                                    !.pivot_low = << b - 200 >>,
                                    !.pivot_high = << b + 2 * a >> ],
            analyzer |-> [ confluence_long |-> 15, confluence_short |-> 10 ] ],
          \* every bullish condition
          [ pine |-> [ quiet EXCEPT !.recent_ob_bull = TRUE, !.recent_fvg_up = TRUE,
                                    !.current_structure = 1,
                                    !.displacement_bias = "bullish",
                                    !.pivot_low = << b - 3 * a, b - 200, b - a, b - 300 >>,
                                    !.pivot_high = << b + a >>,
                                    !.bullish_obs =
                                        << [ top |-> b + 100, btm |-> b - 100, breaker |-> FALSE ],
                                           [ top |-> b - 2 * a, btm |-> b - 3 * a, breaker |-> TRUE ] >>,
                                    !.fvg_up =
                                        << [ top |-> b + 50, btm |-> b - 50, active |-> TRUE ] >> ],
            analyzer |-> [ confluence_long |-> 25, confluence_short |-> 5 ] ],
          \* every bearish condition, price at a swing high
          [ pine |-> [ quiet EXCEPT !.recent_ob_bear = TRUE, !.recent_fvg_down = TRUE,
                                    !.current_structure = -1,
                                    !.displacement_bias = "bearish",
                                    !.pivot_high = << b + 200, b + 2 * a >>,
                                    !.pivot_low = << b - a >>,
                                    !.bearish_obs =
                                        << [ top |-> b + 100, btm |-> b - 100, breaker |-> FALSE ] >>,
                                    !.fvg_down =
                                        << [ top |-> b + 50, btm |-> b - 50, active |-> FALSE ],
                                           [ top |-> b + 20, btm |-> b - 20, active |-> TRUE ] >> ],
            analyzer |-> [ confluence_long |-> 5, confluence_short |-> 25 ] ],
          \* a bearish structure alone, the swing high far away
          [ pine |-> [ quiet EXCEPT !.current_structure = -1,
                                    !.pivot_high = << b + 5 * a >> ],
            analyzer |-> [ confluence_long |-> 10, confluence_short |-> 15 ] ],
          \* both sides equally strong
          [ pine |-> [ quiet EXCEPT !.recent_ob_bull = TRUE, !.recent_ob_bear = TRUE,
                                    !.recent_fvg_up = TRUE, !.recent_fvg_down = TRUE ],
            analyzer |-> [ confluence_long |-> 20, confluence_short |-> 20 ] ] }

\* what the multi-timeframe analysis stores in selected_timeframe['analysis'],
\* as far as the generator reads it: the daily bias, the 4H structure and
\* levels, the 1H trend and momentum, the 15M entry zones
MultiAnalyses(asset) ==
    LET b == BasePrice(asset)
        a == TypicalAtr(asset)
    IN  { \* nothing on either side, no levels
          [ daily_bias |-> wneutral, h4_structure |-> 0,
            h4_support |-> << >>, h4_resistance |-> << >>,
            h1_trend |-> wneutral, h1_momentum |-> wneutral,
            m15_entry_zones |-> << >> ],
          \* all bullish, levels on both sides of the price
          [ daily_bias |-> wBullish, h4_structure |-> 1,
            h4_support |-> << b - 3 * a, b - a, b + a >>,
            h4_resistance |-> << b + 4 * a, b + 2 * a, b - a >>,
            h1_trend |-> wbullish, h1_momentum |-> wBullish,
            m15_entry_zones |-> << b - a >> ],
          \* all bearish
          [ daily_bias |-> wBEARISH, h4_structure |-> -1,
            h4_support |-> << b - a >>, h4_resistance |-> << b + a >>,
            h1_trend |-> wbearish, h1_momentum |-> wbearish,
            m15_entry_zones |-> << >> ],
          \* bullish by the daily bias, bearish by structure and momentum; the
          \* only resistance right above the price
          [ daily_bias |-> wbullish, h4_structure |-> -1,
            h4_support |-> << >>, h4_resistance |-> << b + 10 >>,
            h1_trend |-> wneutral, h1_momentum |-> wbearish,
            m15_entry_zones |-> << >> ],
          \* bullish by the 4H structure alone; the only support right below
          \* the price
          [ daily_bias |-> wneutral, h4_structure |-> 1,
            h4_support |-> << b - 10 >>, h4_resistance |-> << >>,
            h1_trend |-> wneutral, h1_momentum |-> wneutral,
            m15_entry_zones |-> << >> ] }

\* the replies of the language model a run is checked with
RunReplies == ScenarioReplies

\* f"{display_name.lower()}_{interval}_data.csv": one name per asset and interval
FileName(asset, interval) == << asset.display_name, interval >>

\* the keys of a Signal dict in insertion order, which are the columns of
\* pd.DataFrame([signal]): the ten keys every generator sets, then the keys
\* only some set.  _fallback_swing_setup, the one rule-based generator that
\* sets ict_explanation, adds raw_signal last.
DataFrameColumns(sig) ==
    LET first7 == << "timestamp", "current_price", "action", "entry", "tp", "sl",
                     "confidence" >>
    IN  IF "ict_explanation" \in DOMAIN sig
        THEN IF sig.confidence = "AI"
             THEN first7 \o << "raw_signal", "asset", "mode", "ict_explanation" >>
             ELSE first7 \o << "asset", "mode", "ict_explanation", "raw_signal" >>
        ELSE IF "multi_tf_data" \in DOMAIN sig
        THEN first7 \o << "raw_signal", "asset", "mode", "multi_tf_data" >>
        ELSE first7 \o << "raw_signal", "asset", "mode" >>

\* bookkeeping of a generator: one more call of send_prompt, and the Signal
\* it returns recorded with its columns.  interrupted is set when the process
\* is interrupted afterwards.
Returned(sig) ==
    /\ calls' = [ calls EXCEPT !.send_prompt = @ + 1 ]
    /\ produced' = Append(produced, [ run |-> run, columns |-> DataFrameColumns(sig),
                                      interrupted |-> FALSE ])
    /\ UNCHANGED << run, exit_status, log_file >>

-----------------------------------------------------------------------------
(* Spec: run_trading_system, one action per step of the run *)

Init ==
    /\ pc = "select_mode"
    /\ selected_mode = None
    /\ selected_asset = None
    /\ selected_timeframe = None
    /\ current_price = None
    /\ atr_value = None
    /\ indicators = None
    /\ ai_signal = NoReply
    /\ atr_levels = None
    /\ signal = NoSignal
    /\ created_files = << >>
    /\ disk = {}
    /\ data_file = [ asset |-> Null, timeframes |-> << >> ]
    /\ run = 1
    /\ exit_status = Null
    /\ log_file = << >>
    /\ calls = NoCalls
    /\ produced = << >>

\* select_mode(): a choice outside the menu is asked for again
SelectMode ==
    /\ pc = "select_mode"
    /\ \E choice \in DOMAIN mode_config : selected_mode' = mode_config[choice]
    /\ pc' = "select_asset"
    /\ UNCHANGED << selected_asset, selected_timeframe, current_price, atr_value,
                    indicators, ai_signal, atr_levels, signal, files >>
    /\ UNCHANGED process

\* select_asset()
SelectAsset ==
    /\ pc = "select_asset"
    /\ \E choice \in DOMAIN asset_config : selected_asset' = asset_config[choice]
    /\ pc' = "select_timeframe"
    /\ UNCHANGED << selected_mode, selected_timeframe, current_price, atr_value,
                    indicators, ai_signal, atr_levels, signal, files >>
    /\ UNCHANGED process

\* select_timeframe(): the mode's fixed timeframe, or the user's choice
SelectTimeframe ==
    /\ pc = "select_timeframe"
    /\ IF selected_mode.timeframe_fixed # None
       THEN selected_timeframe' =
                CHOOSE tf \in Range(timeframe_config) :
                    tf.interval = selected_mode.timeframe_fixed
       ELSE \E choice \in DOMAIN timeframe_config :
                selected_timeframe' = timeframe_config[choice]
    /\ pc' = "download"
    /\ UNCHANGED << selected_mode, selected_asset, current_price, atr_value,
                    indicators, ai_signal, atr_levels, signal, files >>
    /\ UNCHANGED process

\* download_fresh_data(): the first n timeframes are delivered and saved; the
\* run goes on when all of them were
DownloadFreshData ==
    /\ pc = "download"
    /\ LET intervals == IF selected_timeframe.type = "multi"
                        THEN MultiTimeframes
                        ELSE << selected_timeframe.interval >>
       IN  \E n \in 0..Len(intervals) :
             LET names == [ i \in 1..n |-> FileName(selected_asset, intervals[i]) ]
                 complete == n = Len(intervals)
             IN  /\ created_files' = created_files \o names
                 /\ disk' = disk \cup Elements(names)
                 /\ data_file' = [ asset      |-> IF complete THEN Some(names[n]) ELSE Null,
                                   timeframes |-> IF selected_timeframe.type = "multi"
                                                  THEN names ELSE << >> ]
                 /\ pc' = IF complete THEN "analyze" ELSE "aborted"
                 /\ calls' = [ calls EXCEPT
                        !.download_gold_data =
                            @ \o SubSeq(intervals, 1, Min(n + 1, Len(intervals))),
                        !.save_data_to_csv = @ \o names ]
    /\ UNCHANGED << selected_mode, selected_asset, selected_timeframe, current_price,
                    atr_value, indicators, ai_signal, atr_levels, signal >>
    /\ UNCHANGED << run, exit_status, log_file, produced >>

\* analyze_market() on a single timeframe: the ATR of the data, then the
\* real-time quote or, when there is none, the latest close; an error before
\* the ATR was read or while the quote is fetched ends the run
AnalyzeMarketOf(snapshots, atrs, prices) ==
    /\ pc = "analyze"
    /\ selected_timeframe.type # "multi"
    /\ \/ /\ pc' = "aborted"
          /\ UNCHANGED << current_price, atr_value, indicators >>
       \/ /\ pc' = "aborted"
          /\ atr_value' \in atrs
          /\ UNCHANGED << current_price, indicators >>
       \/ /\ pc' = "generate"
          /\ indicators' \in snapshots
          /\ atr_value' \in atrs
          /\ \E historical_price \in prices,
                price_data \in { [ success |-> FALSE, price |-> 0 ] }
                               \cup { [ success |-> TRUE, price |-> q ] :
                                        q \in prices } :
                current_price' = IF price_data.success THEN price_data.price
                                                       ELSE historical_price
    /\ UNCHANGED << selected_mode, selected_asset, selected_timeframe, ai_signal,
                    atr_levels, signal, files >>
    /\ UNCHANGED process

\* analyze_market() on the indicator states, ATR values and prices of Spec
AnalyzeMarket ==
    AnalyzeMarketOf(IndicatorSnapshots(selected_asset), RunAtrs(selected_asset),
                    RunPrices(selected_asset))

\* _analyze_multi_timeframe(): the ATR of the 15M data and the latest close of
\* the 5M data; an error while the k-th timeframe is loaded ends the run
AnalyzeMultiTimeframeOf(analyses, atrs, prices) ==
    /\ pc = "analyze"
    /\ selected_timeframe.type = "multi"
    /\ \/ /\ pc' = "aborted"
          /\ \E k \in 1..Len(MultiTimeframes) :
                IF k = Len(MultiTimeframes)
                THEN atr_value' \in atrs
                ELSE atr_value' = atr_value
          /\ UNCHANGED << current_price, indicators >>
       \/ /\ pc' = "generate"
          /\ \E analysis \in analyses :
                indicators' = [ analysis |-> analysis ]
          /\ atr_value' \in atrs
          /\ current_price' \in prices
    /\ UNCHANGED << selected_mode, selected_asset, selected_timeframe, ai_signal,
                    atr_levels, signal, files >>
    /\ UNCHANGED process

\* _analyze_multi_timeframe() on the analyses, ATR values and prices of Spec
AnalyzeMultiTimeframe ==
    AnalyzeMultiTimeframeOf(MultiAnalyses(selected_asset), RunAtrs(selected_asset),
                            RunPrices(selected_asset))

\* send_prompt: a reply, or an exception
LanguageModelOutcomes == RunReplies \cup { LLM_ERROR }

\* _generate_scalping_signal()
GenerateScalpingSignalOf(outcomes) ==
    /\ pc = "generate"
    /\ selected_timeframe.type # "multi"
    /\ selected_mode.type = "scalping"
    /\ \E outcome \in outcomes :
         LET conf == pine_confluence(indicators.pine)
         IN  /\ ai_signal' = outcome
             /\ signal' = IF outcome # LLM_ERROR
                          THEN parse_signal(outcome, "scalping")
                          ELSE fallback_pine_signal(conf.long_signals, conf.short_signals,
                                                    "scalping")
    /\ pc' = "done"
    /\ UNCHANGED << selected_mode, selected_asset, selected_timeframe, current_price,
                    atr_value, indicators, atr_levels, files >>
    /\ Returned(signal')

\* _generate_scalping_signal() on the replies of Spec
GenerateScalpingSignal ==
    GenerateScalpingSignalOf(LanguageModelOutcomes)

\* _generate_instant_signal without the except branch: the error of the
\* language-model call leaves the generator and ends the run
GenerateInstantSignal_error_escapes ==
    /\ pc = "generate"
    /\ selected_timeframe.type # "multi"
    /\ selected_mode.type = "instant"
    /\ \E outcome \in LanguageModelOutcomes :
         /\ ai_signal' = outcome
         /\ signal' = IF outcome # LLM_ERROR
                      THEN parse_signal(outcome, "instant")
                      ELSE signal
         /\ pc' = IF outcome # LLM_ERROR THEN "done" ELSE "aborted"
    /\ UNCHANGED << selected_mode, selected_asset, selected_timeframe, current_price,
                    atr_value, indicators, atr_levels, files >>
    /\ Returned(signal')

\* _generate_instant_signal()
GenerateInstantSignalOf(outcomes) ==
    /\ pc = "generate"
    /\ selected_timeframe.type # "multi"
    /\ selected_mode.type = "instant"
    /\ \E outcome \in outcomes :
         LET avg_long_confluence  == indicators.analyzer.confluence_long
             avg_short_confluence == indicators.analyzer.confluence_short
         IN  /\ ai_signal' = outcome
             /\ signal' = IF outcome # LLM_ERROR
                          THEN parse_signal(outcome, "instant")
                          ELSE fallback_signal(avg_long_confluence, avg_short_confluence,
                                               "instant")
    /\ pc' = "done"
    /\ UNCHANGED << selected_mode, selected_asset, selected_timeframe, current_price,
                    atr_value, indicators, atr_levels, files >>
    /\ Returned(signal')

\* _generate_instant_signal() on the replies of Spec
GenerateInstantSignal ==
    GenerateInstantSignalOf(LanguageModelOutcomes)

\* _generate_setup_signal()
GenerateSetupSignalOf(outcomes) ==
    /\ pc = "generate"
    /\ selected_timeframe.type # "multi"
    /\ selected_mode.type = "setup"
    /\ \E outcome \in outcomes :
         LET swing_highs == find_recent_swings(indicators.pine.pivot_high)
             swing_lows  == find_recent_swings(indicators.pine.pivot_low)
             active_obs  == get_active_ict_levels(indicators.pine)
             setup_data  == calculate_setup_levels(swing_highs, swing_lows, active_obs)
         IN  /\ ai_signal' = outcome
             /\ signal' = IF outcome # LLM_ERROR
                          THEN parse_setup_signal_with_explanation(outcome)
                          ELSE fallback_swing_setup(setup_data, indicators.pine)
    /\ pc' = "done"
    /\ UNCHANGED << selected_mode, selected_asset, selected_timeframe, current_price,
                    atr_value, indicators, atr_levels, files >>
    /\ Returned(signal')

\* _generate_setup_signal() on the replies of Spec
GenerateSetupSignal ==
    GenerateSetupSignalOf(LanguageModelOutcomes)

\* _generate_multi_timeframe_signal()
GenerateMultiTimeframeSignalOf(outcomes) ==
    /\ pc = "generate"
    /\ selected_timeframe.type = "multi"
    /\ \E outcome \in outcomes :
         /\ ai_signal' = outcome
         /\ signal' = IF outcome # LLM_ERROR
                      THEN [ multi_tf_data |->
                                 [ h4 |-> [ current_structure |->
                                                indicators.analysis.h4_structure ] ] ]
                           @@ parse_signal(outcome, "multi")
                      ELSE fallback_multi_timeframe_signal(indicators.analysis)
    /\ pc' = "done"
    /\ UNCHANGED << selected_mode, selected_asset, selected_timeframe, current_price,
                    atr_value, indicators, atr_levels, files >>
    /\ Returned(signal')

\* _generate_multi_timeframe_signal() on the replies of Spec
GenerateMultiTimeframeSignal ==
    GenerateMultiTimeframeSignalOf(LanguageModelOutcomes)

\* generate_signal()
GenerateSignal ==
    \/ GenerateMultiTimeframeSignal
    \/ GenerateScalpingSignal
    \/ GenerateInstantSignal
    \/ GenerateSetupSignal

Next ==
    \/ SelectMode
    \/ SelectAsset
    \/ SelectTimeframe
    \/ DownloadFreshData
    \/ AnalyzeMarket
    \/ AnalyzeMultiTimeframe
    \/ GenerateSignal

Spec == Init /\ [][Next]_vars

-----------------------------------------------------------------------------
(* MainSpec: main(), one process after another on the same disk and the     *)
(* same day's log file.  download_fresh_data is taken statement by          *)
(* statement, because SIGINT is handled between any two of them.            *)

\* the processes run one after another
MaxRuns == 2

\* the session of a process that has not constructed its trading system yet
FreshSession ==
    /\ selected_mode = None
    /\ selected_asset = None
    /\ selected_timeframe = None
    /\ current_price = None
    /\ atr_value = None
    /\ indicators = None
    /\ ai_signal = NoReply
    /\ atr_levels = None
    /\ signal = NoSignal
    /\ created_files = << >>
    /\ data_file = [ asset |-> Null, timeframes |-> << >> ]
    /\ exit_status = Null
    /\ calls = NoCalls

MainInit ==
    /\ pc = "main"
    /\ FreshSession
    /\ run = 1
    /\ disk = {}
    /\ log_file = << >>
    /\ produced = << >>

\* _cleanup_files(): the tracked files that exist are removed
cleanup_files == disk \ Elements(created_files)

\* main() up to run_trading_system: when initialize_twelve_data fails, main
\* returns and the process exits with status 0; otherwise the trading system
\* is constructed, which registers _cleanup_files and _signal_handler
Main ==
    /\ pc = "main"
    /\ \E initialized \in BOOLEAN :
          IF initialized
          THEN /\ pc' = "select_mode"
               /\ UNCHANGED exit_status
          ELSE /\ pc' = "exited"
               /\ exit_status' = Some(0)
    /\ UNCHANGED << selected_mode, selected_asset, selected_timeframe, current_price,
                    atr_value, indicators, ai_signal, atr_levels, signal, files,
                    run, log_file, calls, produced >>

\* the intervals download_fresh_data fetches, in order
IntervalsToFetch ==
    IF selected_timeframe.type = "multi" THEN MultiTimeframes
                                         ELSE << selected_timeframe.interval >>

\* download_fresh_data going on to the analysis when download_gold_data
\* returned None
FetchData_goes_on ==
    /\ pc = "download"
    /\ LET interval == IntervalsToFetch[Len(calls.save_data_to_csv) + 1]
       IN  calls' = [ calls EXCEPT !.download_gold_data = Append(@, interval) ]
    /\ pc' \in { "save", "analyze", "exit" }
    /\ UNCHANGED << selected_mode, selected_asset, selected_timeframe, current_price,
                    atr_value, indicators, ai_signal, atr_levels, signal, files,
                    run, exit_status, log_file, produced >>

\* download_fresh_data fetching the interval again when download_gold_data
\* returned None
FetchData_retries ==
    /\ pc = "download"
    /\ LET interval == IntervalsToFetch[Len(calls.save_data_to_csv) + 1]
       IN  calls' = [ calls EXCEPT !.download_gold_data = Append(@, interval) ]
    /\ pc' \in { "save", IF Len(calls.download_gold_data) < 2 THEN "download" ELSE "aborted",
                  "exit" }
    /\ UNCHANGED << selected_mode, selected_asset, selected_timeframe, current_price,
                    atr_value, indicators, ai_signal, atr_levels, signal, files,
                    run, exit_status, log_file, produced >>

\* download_fresh_data(): download_gold_data for the next interval returns
\* the candles, returns None (the run returns None), or raises (main catches
\* the error and returns)
FetchData ==
    /\ pc = "download"
    /\ LET interval == IntervalsToFetch[Len(calls.save_data_to_csv) + 1]
       IN  calls' = [ calls EXCEPT !.download_gold_data = Append(@, interval) ]
    /\ pc' \in { "save", "aborted", "exit" }
    /\ UNCHANGED << selected_mode, selected_asset, selected_timeframe, current_price,
                    atr_value, indicators, ai_signal, atr_levels, signal, files,
                    run, exit_status, log_file, produced >>

\* download_fresh_data(): save_data_to_csv(data, filename=filename)
SaveData ==
    /\ pc = "save"
    /\ LET filename == FileName(selected_asset,
                                 IntervalsToFetch[Len(calls.save_data_to_csv) + 1])
       IN  /\ disk' = disk \cup { filename }
           /\ calls' = [ calls EXCEPT !.save_data_to_csv = Append(@, filename) ]
    /\ pc' = "track"
    /\ UNCHANGED << selected_mode, selected_asset, selected_timeframe, current_price,
                    atr_value, indicators, ai_signal, atr_levels, signal,
                    created_files, data_file, run, exit_status, log_file, produced >>

\* download_fresh_data(): the saved file is tracked and its path stored;
\* after the last interval the path becomes the asset's data_file
TrackFile ==
    /\ pc = "track"
    /\ LET saved    == calls.save_data_to_csv
           filename == saved[Len(saved)]
           complete == Len(saved) = Len(IntervalsToFetch)
       IN  /\ created_files' = Append(created_files, filename)
           /\ data_file' = [ asset      |-> IF complete THEN Some(filename) ELSE Null,
                             timeframes |-> IF selected_timeframe.type = "multi"
                                            THEN Append(data_file.timeframes, filename)
                                            ELSE << >> ]
           /\ pc' = IF complete THEN "analyze" ELSE "download"
    /\ UNCHANGED << selected_mode, selected_asset, selected_timeframe, current_price,
                    atr_value, indicators, ai_signal, atr_levels, signal, disk,
                    run, exit_status, log_file, calls, produced >>

\* the inputs of a process: two indicator states and two multi-timeframe
\* analyses of those of Spec, one price, one ATR value, two replies
ProcessSnapshots(asset) ==
    { s \in IndicatorSnapshots(asset) : s.analyzer.confluence_long \in { 0, 25 } }

ProcessAnalyses(asset) ==
    { a \in MultiAnalyses(asset) : a.h4_support = << >> }

ProcessAtrs(asset) == { TypicalAtr(asset) }

ProcessPrices(asset) == { BasePrice(asset) }

ProcessOutcomes == { ReplyScenarioC, ReplySetupExplained, LLM_ERROR }

\* analyze_market()
AnalyzeMarketInProcess ==
    AnalyzeMarketOf(ProcessSnapshots(selected_asset), ProcessAtrs(selected_asset),
                    ProcessPrices(selected_asset))

\* _analyze_multi_timeframe()
AnalyzeMultiTimeframeInProcess ==
    AnalyzeMultiTimeframeOf(ProcessAnalyses(selected_asset), ProcessAtrs(selected_asset),
                            ProcessPrices(selected_asset))

\* generate_signal()
GenerateSignalInProcess ==
    \/ GenerateMultiTimeframeSignalOf(ProcessOutcomes)
    \/ GenerateScalpingSignalOf(ProcessOutcomes)
    \/ GenerateInstantSignalOf(ProcessOutcomes)
    \/ GenerateSetupSignalOf(ProcessOutcomes)

\* main(): print_signal(signal), which returns at once for None; then the
\* test `if signal:`
PrintSignal ==
    /\ pc \in { "done", "aborted" }
    /\ pc' = IF signal # NoSignal THEN "log" ELSE "exit"
    /\ UNCHANGED << selected_mode, selected_asset, selected_timeframe, current_price,
                    atr_value, indicators, ai_signal, atr_levels, signal, files,
                    run, exit_status, log_file, calls, produced >>

\* one line of the log file: the header line, or the row of a run
LogLine(kind, columns) == [ kind |-> kind, columns |-> columns, run |-> run ]

\* main(): signal_df.to_csv, with the header when the log file does not exist
\* and appended without it when it does
LogSignal ==
    /\ pc = "log"
    /\ LET columns == DataFrameColumns(signal)
       IN  log_file' = IF log_file # << >>
                       THEN Append(log_file, LogLine("row", columns))
                       ELSE << LogLine("header", columns), LogLine("row", columns) >>
    /\ pc' = "exit"
    /\ UNCHANGED << selected_mode, selected_asset, selected_timeframe, current_price,
                    atr_value, indicators, ai_signal, atr_levels, signal, files,
                    run, exit_status, calls, produced >>

\* main() returns and the interpreter exits: atexit runs _cleanup_files, the
\* exit status is 0
AtExit ==
    /\ pc = "exit"
    /\ disk' = cleanup_files
    /\ exit_status' = Some(0)
    /\ pc' = "exited"
    /\ UNCHANGED << selected_mode, selected_asset, selected_timeframe, current_price,
                    atr_value, indicators, ai_signal, atr_levels, signal,
                    created_files, data_file, run, log_file, calls, produced >>

\* where the process is while the handler of SIGINT is registered
Interruptible ==
    { "select_mode", "select_asset", "select_timeframe", "download", "save", "track",
      "analyze", "generate", "done", "aborted", "log", "exit" }

\* SIGINT: _signal_handler runs _cleanup_files and sys.exit(0); SystemExit
\* is no Exception, so it leaves every try block of the run and of main, and
\* atexit runs _cleanup_files once more
SignalHandler ==
    /\ pc \in Interruptible
    /\ disk' = cleanup_files
    /\ exit_status' = Some(0)
    /\ pc' = "exited"
    /\ produced' = [ i \in DOMAIN produced |->
                       IF produced[i].run = run
                       THEN [ produced[i] EXCEPT !.interrupted = TRUE ]
                       ELSE produced[i] ]
    /\ UNCHANGED << selected_mode, selected_asset, selected_timeframe, current_price,
                    atr_value, indicators, ai_signal, atr_levels, signal,
                    created_files, data_file, run, log_file, calls >>

\* the program is started again: a new process, the same disk
NextProcess ==
    /\ pc = "exited"
    /\ run < MaxRuns
    /\ run' = run + 1
    /\ pc' = "main"
    /\ selected_mode' = None
    /\ selected_asset' = None
    /\ selected_timeframe' = None
    /\ current_price' = None
    /\ atr_value' = None
    /\ indicators' = None
    /\ ai_signal' = NoReply
    /\ atr_levels' = None
    /\ signal' = NoSignal
    /\ created_files' = << >>
    /\ data_file' = [ asset |-> Null, timeframes |-> << >> ]
    /\ exit_status' = Null
    /\ calls' = NoCalls
    /\ UNCHANGED << disk, log_file, produced >>

MainNext ==
    \/ Main
    \/ SelectMode
    \/ SelectAsset
    \/ SelectTimeframe
    \/ FetchData
    \/ SaveData
    \/ TrackFile
    \/ AnalyzeMarketInProcess
    \/ AnalyzeMultiTimeframeInProcess
    \/ GenerateSignalInProcess
    \/ PrintSignal
    \/ LogSignal
    \/ AtExit
    \/ SignalHandler
    \/ NextProcess

MainSpec == MainInit /\ [][MainNext]_vars

-----------------------------------------------------------------------------
(* Claims about the Signal a completed run returns *)

\* C1: every Signal a completed run returns, in any mode, its levels parsed
\* from the reply or computed by a fallback, has tp > entry > sl when its
\* action is BUY or BUY_SETUP and tp < entry < sl when it is SELL or SELL_SETUP.
C1_OrderingInvariant ==
    (pc = "done" /\ signal.action \in LongActions \cup ShortActions)
        => AllLevels(signal) /\ StrictlyOrdered(signal.action, signal)

\* C2: a Signal produced by any parser or fallback has action WAIT if and only
\* if its entry, tp and sl are all null.
C2_WaitPurity ==
    pc = "done" => (signal.action = "WAIT" <=> NoLevels(signal))

\* the Signal the selected mode's rule-based fallback builds from the
\* indicator state of the run
ModeFallbackSignal ==
    IF selected_timeframe.type = "multi"
    THEN fallback_multi_timeframe_signal(indicators.analysis)
    ELSE IF selected_mode.type = "scalping"
    THEN LET conf == pine_confluence(indicators.pine)
         IN  fallback_pine_signal(conf.long_signals, conf.short_signals, "scalping")
    ELSE IF selected_mode.type = "instant"
    THEN fallback_signal(indicators.analyzer.confluence_long,
                         indicators.analyzer.confluence_short, "instant")
    ELSE fallback_swing_setup(
             calculate_setup_levels(find_recent_swings(indicators.pine.pivot_high),
                                    find_recent_swings(indicators.pine.pivot_low),
                                    get_active_ict_levels(indicators.pine)),
             indicators.pine)

\* C13: in every mode, once download and analysis have succeeded, a failure
\* of the language-model call does not abort the run: the run is done and has
\* returned one Signal, the one built by the mode's rule-based fallback.
C13_ModelFailureAbsorbed ==
    ai_signal = LLM_ERROR =>
        /\ pc = "done"
        /\ signal.action \in Actions
        /\ signal.confidence # "AI"
        /\ signal = ModeFallbackSignal

\* C13 witness: an instant run whose model call failed returned the BUY
\* Signal of the confluence fallback
C13_Witness ==
    /\ pc = "done"
    /\ ai_signal = LLM_ERROR
    /\ selected_timeframe.type # "multi"
    /\ selected_mode.type = "instant"
    /\ signal.action = "BUY"
    /\ signal.confidence = "ICT"
    /\ signal.levels_from = "atr"

\* the scores of the run's indicator state stay below the selected mode's
\* confluence threshold (tenths): on a single timeframe the counts of the Pine
\* conditions and the analyzer's average confluences, on multiple timeframes
\* the weighted confluences
ScoresBelowThreshold ==
    LET threshold == selected_mode.confluence_threshold
    IN  IF selected_timeframe.type = "multi"
        THEN LET conf == multi_confluence(indicators.analysis)
             IN  Max(conf.long_confluence, conf.short_confluence) < threshold
        ELSE LET conf == pine_confluence(indicators.pine)
             IN  /\ 10 * Max(conf.long_signals, conf.short_signals) < threshold
                 /\ Max(indicators.analyzer.confluence_long,
                        indicators.analyzer.confluence_short) < threshold

\* C7: in every setup-mode run whose larger score is below the mode's
\* confluence threshold, the resulting Signal's action is WAIT.
C7_ConfluenceThreshold ==
    (pc = "done" /\ selected_mode.type = "setup" /\ ScoresBelowThreshold)
        => signal.action = "WAIT"

-----------------------------------------------------------------------------
(* Claims about the process *)

\* the three steps of interactive selection
Selection == { "select_mode", "select_asset", "select_timeframe" }

\* every interval of the selected timeframe was fetched, saved and tracked
DownloadComplete ==
    /\ calls.download_gold_data = IntervalsToFetch
    /\ Len(calls.save_data_to_csv) = Len(IntervalsToFetch)
    /\ created_files = calls.save_data_to_csv

\* C14: the steps of a run execute in the order select mode, select asset,
\* select timeframe, download, analyze, generate; a step executes only when
\* every earlier step succeeded; after a failed step no later step executes,
\* the language-model client is not called and the run returns no Signal.
C14_PipelineOrder ==
    /\ pc \in { "main" } \cup Selection =>
          calls = NoCalls /\ created_files = << >>
    /\ pc \in { "main", "download", "save", "track", "analyze", "generate" } \cup Selection =>
          calls.send_prompt = 0 /\ signal = NoSignal /\ ai_signal = NoReply
    /\ pc \in { "analyze", "generate" } => DownloadComplete
    /\ calls.send_prompt > 0 => DownloadComplete
    /\ (signal # NoSignal \/ ai_signal # NoReply) => calls.send_prompt > 0
    /\ pc = "aborted" =>
          signal = NoSignal /\ ai_signal = NoReply /\ calls.send_prompt = 0

\* C14 witness: the third download of a multi-timeframe run failed; the run
\* ended with two files tracked, no analysis, no model call and no Signal
C14_Witness ==
    /\ pc = "aborted"
    /\ selected_timeframe.type = "multi"
    /\ Len(calls.download_gold_data) = 3
    /\ Len(created_files) = 2
    /\ indicators = None
    /\ calls.send_prompt = 0
    /\ signal = NoSignal

\* C15: when the process has exited, on any exit path and with SIGINT
\* delivered at any point, no data file it saved during the run is left on
\* disk.
C15_GuaranteedRelease ==
    pc = "exited" => Elements(calls.save_data_to_csv) \cap disk = {}

\* C16: when the user interrupts during mode, asset or timeframe selection,
\* the run produces no Signal, cleanup has run and the process exits with a
\* non-zero status.
C16_UserCancellation ==
    [][ (pc \in Selection /\ pc' = "exited") =>
            /\ signal' = NoSignal
            /\ Elements(created_files') \cap disk' = {}
            /\ exit_status' # Null
            /\ ValueOf(exit_status') # 0 ]_vars

\* a sequence holds no element twice
NoDuplicates(seq) ==
    \A i, j \in DOMAIN seq : seq[i] = seq[j] => i = j

\* C17: in a run the language-model client is called at most once and the
\* data of each timeframe is fetched at most once; after a failed fetch
\* nothing more is fetched, and a failed model call is followed by the
\* fallback's Signal, not by another call.
C17_NoRetry ==
    /\ calls.send_prompt <= 1
    /\ NoDuplicates(calls.download_gold_data)
    /\ Len(calls.download_gold_data) <= Len(calls.save_data_to_csv) + 1
    /\ pc \in { "aborted", "analyze", "generate", "done", "log" } =>
          Len(calls.download_gold_data) <= Len(IntervalsToFetch)
    /\ ai_signal = LLM_ERROR =>
          calls.send_prompt = 1 /\ signal # NoSignal /\ signal.confidence # "AI"

\* C17 witness: a multi-timeframe run fetched its five intervals once each,
\* its one model call failed and the fallback's Signal was returned
C17_Witness ==
    /\ pc = "done"
    /\ calls.download_gold_data = MultiTimeframes
    /\ calls.send_prompt = 1
    /\ ai_signal = LLM_ERROR
    /\ signal.confidence = "Multi-TF ICT"

\* the rows of the log file: its lines after the first
LogRows == IF log_file = << >> THEN << >> ELSE Tail(log_file)

\* C18: after any sequence of runs the log file holds one header line
\* followed by one row per run that produced a Signal, in run order; a run
\* that produced no Signal has no row; every row has the columns of the
\* header.  (A run interrupted after it produced its Signal may have been
\* stopped before its row was written.)
C18_SignalLog ==
    pc = "exited" =>
        /\ log_file # << >> => log_file[1].kind = "header" /\ Len(log_file) > 1
        /\ \A i \in DOMAIN LogRows :
              /\ LogRows[i].kind = "row"
              /\ LogRows[i].columns = log_file[1].columns
              /\ \E k \in DOMAIN produced : produced[k].run = LogRows[i].run
        /\ \A i, j \in DOMAIN LogRows : i < j => LogRows[i].run < LogRows[j].run
        /\ \A k \in DOMAIN produced :
              ~produced[k].interrupted =>
                  \E i \in DOMAIN LogRows : LogRows[i].run = produced[k].run

-----------------------------------------------------------------------------
(* The fallbacks of the scalping and the instant generator, on every pair of
   scores *)

\* highest average confluence drawn, in tenths
MaxConfluence == 20

\* what the analysis left behind: for scalping the Pine Script conditions of
\* the last candles, for instant the averages of confluence_long and
\* confluence_short
FallbackSnapshots(mode_type) ==
    LET quiet ==
            [ recent_ob_bull |-> FALSE, recent_ob_bear |-> FALSE,
              recent_fvg_up |-> FALSE, recent_fvg_down |-> FALSE,
              current_structure |-> 0, displacement_bias |-> "neutral",
              pivot_high |-> << >>, pivot_low |-> << >>,
              bullish_obs |-> NoZones, bearish_obs |-> NoZones,
              fvg_up |-> NoZones, fvg_down |-> NoZones ]
    IN  IF mode_type = "scalping"
        THEN { [ pine |-> [ quiet EXCEPT !.recent_ob_bull = ob_bull,
                                         !.recent_ob_bear = ob_bear,
                                         !.recent_fvg_up = fvg_up,
                                         !.recent_fvg_down = fvg_down,
                                         !.current_structure = structure,
                                         !.displacement_bias = bias ],
                 analyzer |-> [ confluence_long |-> 0, confluence_short |-> 0 ] ] :
               ob_bull \in BOOLEAN, ob_bear \in BOOLEAN,
               fvg_up \in BOOLEAN, fvg_down \in BOOLEAN,
               structure \in { -1, 0, 1 },
               bias \in { "bullish", "bearish", "neutral" } }
        ELSE { [ pine |-> quiet,
                 analyzer |-> [ confluence_long |-> l, confluence_short |-> s ] ] :
               l \in 0..MaxConfluence, s \in 0..MaxConfluence }

\* the session as run_trading_system leaves it before generate_signal, in
\* scalping or instant mode with one timeframe
FallbackInit ==
    /\ pc = "generate"
    /\ selected_mode \in { m \in Range(mode_config) : m.type \in { "scalping", "instant" } }
    /\ selected_asset \in Range(asset_config)
    /\ selected_timeframe \in { tf \in TimeframesOf(selected_mode) : tf.type # "multi" }
    /\ current_price \in RunPrices(selected_asset)
    /\ atr_value \in RunAtrs(selected_asset)
    /\ indicators \in FallbackSnapshots(selected_mode.type)
    /\ ai_signal = NoReply
    /\ atr_levels = None
    /\ signal = NoSignal
    /\ LET name == FileName(selected_asset, selected_timeframe.interval)
       IN  /\ created_files = << name >>
           /\ disk = { name }
           /\ data_file = [ asset |-> Some(name), timeframes |-> << >> ]
           /\ calls = [ send_prompt        |-> 0,
                        download_gold_data |-> << selected_timeframe.interval >>,
                        save_data_to_csv   |-> << name >> ]
    /\ run = 1
    /\ exit_status = Null
    /\ log_file = << >>
    /\ produced = << >>

\* the generator of the mode, its model call raising
FallbackNext ==
    \/ GenerateScalpingSignalOf({ LLM_ERROR })
    \/ GenerateInstantSignalOf({ LLM_ERROR })

FallbackSpec == FallbackInit /\ [][FallbackNext]_vars

\* the scores the fallback of the mode decides on: counts of conditions in
\* scalping mode, average confluence in tenths in instant mode
BullishScore ==
    IF selected_mode.type = "scalping"
    THEN pine_confluence(indicators.pine).long_signals
    ELSE indicators.analyzer.confluence_long

BearishScore ==
    IF selected_mode.type = "scalping"
    THEN pine_confluence(indicators.pine).short_signals
    ELSE indicators.analyzer.confluence_short

\* 2 conditions in scalping mode, an average of 1.5 in instant mode
SpecThreshold == IF selected_mode.type = "scalping" THEN 2 ELSE 15

\* C20: when the model call fails in scalping mode (threshold 2, counts) or
\* instant mode (threshold 1.5, average confluence), the action is BUY iff
\* bullish > bearish and bullish >= threshold, SELL iff bearish > bullish and
\* bearish >= threshold, and WAIT otherwise, every tie included; the levels
\* of a BUY or SELL are entry = price, tp and sl at the mode's ATR multiples
\* (1.5/1.0 scalping, 2.5/1.2 instant) from the price.
C20_ThresholdFallback ==
    (pc = "done" /\ ai_signal = LLM_ERROR) =>
        LET buy  == BullishScore > BearishScore /\ BullishScore >= SpecThreshold
            sell == BearishScore > BullishScore /\ BearishScore >= SpecThreshold
            dir  == IF signal.action = "BUY" THEN 1 ELSE -1
            tpm  == SpecTpMultiple(selected_mode.type)
            slm  == SpecSlMultiple(selected_mode.type)
        IN  /\ signal.action = "BUY" <=> buy
            /\ signal.action = "SELL" <=> sell
            /\ signal.action = "WAIT" <=> ~buy /\ ~sell
            /\ BullishScore = BearishScore => signal.action = "WAIT"
            /\ signal.action # "WAIT" =>
                  /\ AllLevels(signal)
                  /\ IsRounded(ValueOf(signal.entry), 10 * current_price)
                  /\ IsRounded(ValueOf(signal.tp),
                               10 * current_price + dir * atr_value * tpm)
                  /\ IsRounded(ValueOf(signal.sl),
                               10 * current_price - dir * atr_value * slm)

\* C20 witness: instant mode on EUR/USD at 1.10000 with ATR 0.00100, the
\* averages 1.5 against 1.4: the model call failed and the fallback bought
\* with tp 2.5 and sl 1.2 ATR away
C20_Witness ==
    /\ pc = "done"
    /\ ai_signal = LLM_ERROR
    /\ selected_mode.type = "instant"
    /\ selected_asset.display_name = "EURUSD"
    /\ current_price = 1100000
    /\ atr_value = 1000
    /\ indicators.analyzer.confluence_long = 15
    /\ indicators.analyzer.confluence_short = 14
    /\ signal.action = "BUY"
    /\ signal.entry = Some(1100000)
    /\ signal.tp = Some(1102500)
    /\ signal.sl = Some(1098800)

-----------------------------------------------------------------------------
(* The fallback of the multi-timeframe generator, on lists of 4H levels and
   on every combination of bias, structure, trend and momentum *)

\* longest list of 4H support or resistance levels drawn
MaxLevels == 2

\* the levels drawn: one ATR and one unit of the asset's precision away from
\* the price, on either side
LevelsAround(asset) ==
    LET b == BasePrice(asset)
        a == TypicalAtr(asset)
    IN  { b - a, b - 10, b + 10, b + a }

\* the lists of levels get_latest_signals() can report
LevelLists(asset) ==
    UNION { [ 1..n -> LevelsAround(asset) ] : n \in 0..MaxLevels }

\* what _analyze_multi_timeframe leaves in selected_timeframe['analysis']:
\* every combination of the four conditions with two lists of levels, and
\* every pair of lists with three combinations of the conditions
MultiFallbackAnalyses(asset) ==
    LET b == BasePrice(asset)
        a == TypicalAtr(asset)
        Words == { wbullish, wbearish, wneutral }
    IN  { [ daily_bias |-> d, h4_structure |-> st,
            h4_support |-> lv[1], h4_resistance |-> lv[2],
            h1_trend |-> t, h1_momentum |-> m,
            m15_entry_zones |-> << >> ] :
          d \in Words \cup { wBullish, wBEARISH }, st \in { -1, 0, 1 },
          t \in Words, m \in Words,
          lv \in { << << >>, << >> >>, << << b - a >>, << b + a >> >> } }
        \cup
        { [ daily_bias |-> w, h4_structure |-> 0,
            h4_support |-> sup, h4_resistance |-> res,
            h1_trend |-> wneutral, h1_momentum |-> wneutral,
            m15_entry_zones |-> << b >> ] :
          w \in Words, sup \in LevelLists(asset), res \in LevelLists(asset) }

\* the session as run_trading_system leaves it before generate_signal with
\* the multi timeframe selected
MultiFallbackInit ==
    /\ pc = "generate"
    /\ selected_mode \in { m \in Range(mode_config) : m.timeframe_fixed = None }
    /\ selected_asset \in Range(asset_config)
    /\ selected_timeframe \in { tf \in Range(timeframe_config) : tf.type = "multi" }
    /\ current_price = BasePrice(selected_asset)
    /\ atr_value \in RunAtrs(selected_asset)
    /\ indicators \in { [ analysis |-> an ] : an \in MultiFallbackAnalyses(selected_asset) }
    /\ ai_signal = NoReply
    /\ atr_levels = None
    /\ signal = NoSignal
    /\ LET names == [ i \in 1..Len(MultiTimeframes) |->
                        FileName(selected_asset, MultiTimeframes[i]) ]
       IN  /\ created_files = names
           /\ disk = Elements(names)
           /\ data_file = [ asset |-> Some(names[Len(names)]), timeframes |-> names ]
           /\ calls = [ send_prompt        |-> 0,
                        download_gold_data |-> MultiTimeframes,
                        save_data_to_csv   |-> names ]
    /\ run = 1
    /\ exit_status = Null
    /\ log_file = << >>
    /\ produced = << >>

\* the multi-timeframe generator, its model call raising
MultiFallbackNext == GenerateMultiTimeframeSignalOf({ LLM_ERROR })

MultiFallbackSpec == MultiFallbackInit /\ [][MultiFallbackNext]_vars

-----------------------------------------------------------------------------
(* _analyze_multi_timeframe, one timeframe at a time *)

\* the last row of a timeframe's data: its ATR and its close
LatestRows(asset) ==
    { [ atr |-> a, close |-> c ] :
        a \in { TypicalAtr(asset), 2 * TypicalAtr(asset) },
        c \in RunPrices(asset) }

\* analysis_results so far: one entry per timeframe analysed, in loop order
AnalysedSoFar == IF pc = "analyze" THEN << >> ELSE indicators.data

\* the loop body setting the session's ATR from every timeframe's data
AnalyzeTimeframe_atr_from_each ==
    /\ pc \in { "analyze", "analyze_next" }
    /\ selected_timeframe.type = "multi"
    /\ LET interval == MultiTimeframes[Len(AnalysedSoFar) + 1]
           last     == Len(AnalysedSoFar) + 1 = Len(MultiTimeframes)
       IN  \/ /\ pc' = "aborted"
              /\ UNCHANGED << atr_value, current_price, indicators >>
           \/ \E row \in LatestRows(selected_asset) :
                LET data == Append(AnalysedSoFar,
                                   [ interval |-> interval, atr |-> row.atr,
                                     close |-> row.close ])
                IN  /\ atr_value' = row.atr
                    /\ current_price' = IF interval = "5m" THEN row.close
                                                          ELSE current_price
                    /\ IF last
                       THEN /\ \E analysis \in ProcessAnalyses(selected_asset) :
                                 indicators' = [ analysis |-> analysis, data |-> data ]
                            /\ pc' = "generate"
                       ELSE /\ indicators' = [ data |-> data ]
                            /\ pc' = "analyze_next"
    /\ UNCHANGED << selected_mode, selected_asset, selected_timeframe, ai_signal,
                    atr_levels, signal, files >>
    /\ UNCHANGED process

\* one pass of the loop of _analyze_multi_timeframe: the next timeframe's
\* file is read and analysed (any failure makes the function return False);
\* the 15m pass sets the session's ATR, the 5m pass its current price; after
\* the last pass the results are stored and the function returns True
AnalyzeTimeframe ==
    /\ pc \in { "analyze", "analyze_next" }
    /\ selected_timeframe.type = "multi"
    /\ LET interval == MultiTimeframes[Len(AnalysedSoFar) + 1]
           last     == Len(AnalysedSoFar) + 1 = Len(MultiTimeframes)
       IN  \/ /\ pc' = "aborted"
              /\ UNCHANGED << atr_value, current_price, indicators >>
           \/ \E row \in LatestRows(selected_asset) :
                LET data == Append(AnalysedSoFar,
                                   [ interval |-> interval, atr |-> row.atr,
                                     close |-> row.close ])
                IN  /\ atr_value' = IF interval = "15m" THEN row.atr ELSE atr_value
                    /\ current_price' = IF interval = "5m" THEN row.close
                                                          ELSE current_price
                    /\ IF last
                       THEN /\ \E analysis \in ProcessAnalyses(selected_asset) :
                                 indicators' = [ analysis |-> analysis, data |-> data ]
                            /\ pc' = "generate"
                       ELSE /\ indicators' = [ data |-> data ]
                            /\ pc' = "analyze_next"
    /\ UNCHANGED << selected_mode, selected_asset, selected_timeframe, ai_signal,
                    atr_levels, signal, files >>
    /\ UNCHANGED process

\* the session as run_trading_system leaves it before analyze_market with the
\* multi timeframe selected and its five files downloaded
PinningInit ==
    /\ pc = "analyze"
    /\ selected_mode \in { m \in Range(mode_config) : m.timeframe_fixed = None }
    /\ selected_asset \in Range(asset_config)
    /\ selected_timeframe \in { tf \in Range(timeframe_config) : tf.type = "multi" }
    /\ current_price = None
    /\ atr_value = None
    /\ indicators = None
    /\ ai_signal = NoReply
    /\ atr_levels = None
    /\ signal = NoSignal
    /\ LET names == [ i \in 1..Len(MultiTimeframes) |->
                        FileName(selected_asset, MultiTimeframes[i]) ]
       IN  /\ created_files = names
           /\ disk = Elements(names)
           /\ data_file = [ asset |-> Some(names[Len(names)]), timeframes |-> names ]
           /\ calls = [ send_prompt        |-> 0,
                        download_gold_data |-> MultiTimeframes,
                        save_data_to_csv   |-> names ]
    /\ run = 1
    /\ exit_status = Null
    /\ log_file = << >>
    /\ produced = << >>

PinningNext ==
    \/ AnalyzeTimeframe
    \/ GenerateMultiTimeframeSignalOf({ ReplyScenarioC, LLM_ERROR })

PinningSpec == PinningInit /\ [][PinningNext]_vars

-----------------------------------------------------------------------------
(* The two confluence scorers, on every combination of their conditions *)

ScoringInit ==
    \/ FallbackInit /\ selected_mode.type = "scalping"
    \/ MultiFallbackInit

ScoringNext ==
    \/ GenerateScalpingSignalOf({ LLM_ERROR })
    \/ GenerateMultiTimeframeSignalOf({ LLM_ERROR })

ScoringSpec == ScoringInit /\ [][ScoringNext]_vars

-----------------------------------------------------------------------------
(* _cleanup_files run by the SIGINT handler and then by the exit hook, a
   removal failing or not *)

\* a file in the working directory that the session does not track: no
\* timeframe of timeframe_config has this interval
Leftover(asset) == FileName(asset, "1wk")

\* _cleanup_files(): os.remove is called for every tracked file that exists;
\* a removal that raises is caught and the loop goes on.  failed holds the
\* files whose removal raised; the result is what is left on disk
remove_tracked(failed) == disk \ (Elements(created_files) \ failed)

\* the process at the moment it is interrupted ("signal") or ends by itself
\* ("exit"), some files of the selected timeframe saved and tracked
CleanupInit ==
    /\ pc \in { "signal", "exit" }
    /\ selected_mode \in Range(mode_config)
    /\ selected_asset \in Range(asset_config)
    /\ selected_timeframe \in TimeframesOf(selected_mode)
    /\ current_price = None
    /\ atr_value = None
    /\ indicators = None
    /\ ai_signal = NoReply
    /\ atr_levels = None
    /\ signal = NoSignal
    /\ \E n \in 0..Len(IntervalsToFetch) :
         LET names == [ i \in 1..n |-> FileName(selected_asset, IntervalsToFetch[i]) ]
         IN  /\ created_files = names
             /\ disk \in { Elements(names),
                           (Elements(names) \cup { Leftover(selected_asset) }) }
             /\ data_file = [ asset |-> Null, timeframes |-> << >> ]
             /\ calls = [ send_prompt        |-> 0,
                          download_gold_data |-> SubSeq(IntervalsToFetch, 1, n),
                          save_data_to_csv   |-> names ]
    /\ run = 1
    /\ exit_status = Null
    /\ log_file = << >>
    /\ produced = << >>

\* _signal_handler(): _cleanup_files, then sys.exit(0), which runs the exit
\* hooks
SignalHandlerCleanup ==
    /\ pc = "signal"
    /\ \E failed \in SUBSET (Elements(created_files) \cap disk) :
         disk' = remove_tracked(failed)
    /\ exit_status' = Some(0)
    /\ pc' = "exit"
    /\ UNCHANGED << selected_mode, selected_asset, selected_timeframe, current_price,
                    atr_value, indicators, ai_signal, atr_levels, signal,
                    created_files, data_file, run, log_file, calls, produced >>

\* the exit hook deleting every file in the directory
ExitHookCleanup_everything ==
    /\ pc = "exit"
    /\ disk' = {}
    /\ exit_status' = Some(0)
    /\ pc' = "exited"
    /\ UNCHANGED << selected_mode, selected_asset, selected_timeframe, current_price,
                    atr_value, indicators, ai_signal, atr_levels, signal,
                    created_files, data_file, run, log_file, calls, produced >>

\* the hook registered with atexit: _cleanup_files once more
ExitHookCleanup ==
    /\ pc = "exit"
    /\ \E failed \in SUBSET (Elements(created_files) \cap disk) :
         disk' = remove_tracked(failed)
    /\ exit_status' = Some(0)
    /\ pc' = "exited"
    /\ UNCHANGED << selected_mode, selected_asset, selected_timeframe, current_price,
                    atr_value, indicators, ai_signal, atr_levels, signal,
                    created_files, data_file, run, log_file, calls, produced >>

CleanupNext ==
    \/ SignalHandlerCleanup
    \/ ExitHookCleanup

CleanupSpec == CleanupInit /\ [][CleanupNext]_vars

-----------------------------------------------------------------------------
(* Claims about the fallbacks of the setup and the multi-timeframe generator *)

\* the swing levels _generate_setup_signal hands to its fallback
SetupData ==
    calculate_setup_levels(find_recent_swings(indicators.pine.pivot_high),
                           find_recent_swings(indicators.pine.pivot_low),
                           get_active_ict_levels(indicators.pine))

\* pipBuffer x pipValue of the selected asset
PipBuffer == selected_asset.pip_buffer * selected_asset.pip_value

\* C21: whenever the setup-mode fallback returns BUY_SETUP or SELL_SETUP, the
\* Signal's entry is the pip-buffered trigger computed from the nearest swing
\* level (swing low + pipBuffer x pipValue for BUY_SETUP, swing high -
\* pipBuffer x pipValue for SELL_SETUP), not the current price.
C21_SetupTriggerPrice ==
    ( /\ pc = "done"
      /\ ai_signal = LLM_ERROR
      /\ selected_mode.type = "setup"
      /\ selected_timeframe.type # "multi" ) =>
        /\ signal.action = "BUY_SETUP" =>
              IsRounded(ValueOf(signal.entry), 10 * (SetupData.swing_low + PipBuffer))
        /\ signal.action = "SELL_SETUP" =>
              IsRounded(ValueOf(signal.entry), 10 * (SetupData.swing_high - PipBuffer))

\* the 4H levels the multi-timeframe fallback looks at: supports below the
\* price, resistances above it
SupportsBelow ==
    { l \in Elements(indicators.analysis.h4_support) : l < current_price }

ResistancesAbove ==
    { l \in Elements(indicators.analysis.h4_resistance) : l > current_price }

\* S and R of the rule, in tenths of a sub-unit: the greatest support below
\* the price (price - 2 ATR when none), the least resistance above it
\* (price + 2 ATR when none)
SpecSupport ==
    IF SupportsBelow # {} THEN 10 * SetMax(SupportsBelow)
                          ELSE 10 * current_price - 20 * atr_value

SpecResistance ==
    IF ResistancesAbove # {} THEN 10 * SetMin(ResistancesAbove)
                             ELSE 10 * current_price + 20 * atr_value

MultiFallbackDone ==
    pc = "done" /\ ai_signal = LLM_ERROR /\ selected_timeframe.type = "multi"

\* C22: in the multi-timeframe fallback a BUY_SETUP has entry = S + 0.2 ATR,
\* sl = S - 1.0 ATR, tp = R when a resistance above the price exists and
\* entry + 2.5 ATR otherwise; a SELL_SETUP has entry = R - 0.2 ATR,
\* sl = R + 1.0 ATR, tp = S when a support below the price exists and
\* entry - 2.5 ATR otherwise; all rounded to the asset's precision.
C22_MultiFallbackLevels ==
    MultiFallbackDone =>
        /\ signal.action = "BUY_SETUP" =>
              /\ IsRounded(ValueOf(signal.entry), SpecSupport + 2 * atr_value)
              /\ IsRounded(ValueOf(signal.sl), SpecSupport - 10 * atr_value)
              /\ IsRounded(ValueOf(signal.tp),
                           IF ResistancesAbove # {}
                           THEN SpecResistance
                           ELSE SpecSupport + 2 * atr_value + 25 * atr_value)
        /\ signal.action = "SELL_SETUP" =>
              /\ IsRounded(ValueOf(signal.entry), SpecResistance - 2 * atr_value)
              /\ IsRounded(ValueOf(signal.sl), SpecResistance + 10 * atr_value)
              /\ IsRounded(ValueOf(signal.tp),
                           IF SupportsBelow # {}
                           THEN SpecSupport
                           ELSE SpecResistance - 2 * atr_value - 25 * atr_value)

\* C22 witness: EUR/USD at 1.10000 with ATR 0.00100, supports 1.09900 and
\* 1.09999 below and resistance 1.10100 above: the fallback bought at
\* 1.09999 + 0.00020 with the stop 0.00100 under the support and the target
\* at the resistance
C22_Witness ==
    /\ MultiFallbackDone
    /\ selected_asset.display_name = "EURUSD"
    /\ atr_value = 1000
    /\ indicators.analysis.h4_support = << 1099000, 1099990 >>
    /\ indicators.analysis.h4_resistance = << 1101000 >>
    /\ signal.action = "BUY_SETUP"
    /\ signal.entry = Some(1100190)
    /\ signal.sl = Some(1098990)
    /\ signal.tp = Some(1101000)

\* C23: for every current price, every ATR > 0 and every list of 4H support
\* and resistance levels, the Signal of the multi-timeframe fallback has
\* sl < entry < tp for BUY_SETUP and tp < entry < sl for SELL_SETUP.
C23_MultiFallbackOrdering ==
    (MultiFallbackDone /\ atr_value > 0) =>
        /\ AllLevels(signal)
        /\ StrictlyOrdered(signal.action, signal)

\* C29: the multi-timeframe fallback never returns WAIT: it returns BUY_SETUP
\* when long confluence >= short confluence (the tie and 0 = 0 included) and
\* SELL_SETUP otherwise, always with entry, tp and sl.
C29_MultiFallbackNeverWaits ==
    MultiFallbackDone =>
        LET conf == multi_confluence(indicators.analysis)
        IN  /\ signal.action \in { "BUY_SETUP", "SELL_SETUP" }
            /\ signal.action = "BUY_SETUP" <=>
                  conf.long_confluence >= conf.short_confluence
            /\ AllLevels(signal)

\* C29 witness: nothing bullish and nothing bearish on any timeframe, no 4H
\* level: the fallback returned a BUY_SETUP with its three levels
C29_Witness ==
    /\ MultiFallbackDone
    /\ indicators.analysis.daily_bias = wneutral
    /\ indicators.analysis.h4_structure = 0
    /\ indicators.analysis.h1_trend = wneutral
    /\ indicators.analysis.h1_momentum = wneutral
    /\ indicators.analysis.h4_support = << >>
    /\ indicators.analysis.h4_resistance = << >>
    /\ atr_value = TypicalAtr(selected_asset)
    /\ signal.action = "BUY_SETUP"
    /\ AllLevels(signal)

\* the last row of the data of one timeframe, as the analysis recorded it
RowOf(interval) ==
    LET i == CHOOSE k \in DOMAIN indicators.data :
                 indicators.data[k].interval = interval
    IN  indicators.data[i]

\* C24: after a successful multi-timeframe analysis over the five timeframes
\* in the order daily, 4H, 1H, 15M, 5M, the session's ATR is the latest ATR
\* of the 15M data and its current price the latest close of the 5M data,
\* and they still are when the signal is generated.
C24_MultiTimeframePinning ==
    (pc \in { "generate", "done" } /\ selected_timeframe.type = "multi") =>
        /\ [ i \in DOMAIN indicators.data |-> indicators.data[i].interval ]
              = MultiTimeframes
        /\ atr_value = RowOf("15m").atr
        /\ current_price = RowOf("5m").close
        /\ pc = "done" => signal.current_price = RowOf("5m").close

\* C24 witness: the 15M data ends with an ATR and the 5M data with a close
\* that no other timeframe has; the signal was generated from these two
C24_Witness ==
    /\ pc = "done"
    /\ selected_timeframe.type = "multi"
    /\ \A i \in DOMAIN indicators.data :
          /\ indicators.data[i].interval # "15m" =>
                indicators.data[i].atr # RowOf("15m").atr
          /\ indicators.data[i].interval # "5m" =>
                indicators.data[i].close # RowOf("5m").close
    /\ atr_value = RowOf("15m").atr
    /\ current_price = RowOf("5m").close
    /\ signal.current_price = current_price

-----------------------------------------------------------------------------
(* Claims about the replies and the prompts *)

\* a setup-mode reply holding the delimiter marker has been parsed
SetupReplyWithMarkerParsed ==
    /\ pc = "parsed"
    /\ selected_mode.type = "setup"
    /\ selected_timeframe.type # "multi"
    /\ Contains(Strip(ai_signal), kwMARKER)

\* the reply up to its first marker, and the reply after its first marker
HeadOfReply == BeforeMarker(Strip(ai_signal))

TailOfReply ==
    LET response == Strip(ai_signal)
    IN  SubSeq(response, Find(response, kwMARKER) + Len(kwMARKER), Len(response))

\* C25: when a setup-mode reply contains the delimiter marker, action, entry,
\* tp and sl are those of the text before the first marker alone, whatever
\* keywords and numbers follow the marker; the text after the marker is
\* stored as the Signal's explanatory text, and raw_signal holds the whole
\* reply.
C25_ExplanationSplit ==
    SetupReplyWithMarkerParsed =>
        LET head == parse_setup_signal_with_explanation(HeadOfReply)
        IN  /\ signal.action = head.action
            /\ signal.entry = head.entry
            /\ signal.tp = head.tp
            /\ signal.sl = head.sl
            /\ signal.ict_explanation = Some(Strip(TailOfReply))
            /\ signal.raw_signal = Strip(ai_signal)

\* replies that follow the response formats of the prompt templates, with
\* the numbers written in their slots:
\*   scalping, instant: "BUY [ENTRY] TP:[TAKE_PROFIT] SL:[STOP_LOSS] - [BRIEF_REASON]"
\*   setup: "BUY WHEN >= [TRIGGER_PRICE] TP:[TAKE_PROFIT] SL:[STOP_LOSS] - [SHORT_REASON]"
\*   multi: "BUY AFTER SWEEP OF [LIQ_LEVEL] >= [ENTRY] TP:[TAKE_PROFIT] SL:[STOP_LOSS]"
PromptFormatReplies ==
    { [ reply |-> ReplyScenarioC, modes |-> { "scalping", "instant" },
        entry |-> << "1", ".", "1", "0", "5", "0" >>,
        tp    |-> << "1", ".", "1", "1", "0", "0" >>,
        sl    |-> << "1", ".", "1", "0", "2", "0" >> ],
      [ reply |-> ReplySellNoBuyers, modes |-> { "scalping", "instant" },
        entry |-> << "1", ".", "1", "0", "5", "0" >>,
        tp    |-> << "1", ".", "1", "0", "0", "0" >>,
        sl    |-> << "1", ".", "1", "1", "0", "0" >> ],
      [ reply |-> ReplySetupExplained, modes |-> { "setup" },
        entry |-> << "1", ".", "1", "0", "5", "0" >>,
        tp    |-> << "1", ".", "1", "1", "0", "0" >>,
        sl    |-> << "1", ".", "1", "0", "2", "0" >> ],
      [ reply |-> ReplyMultiSweep, modes |-> { "multi" },
        entry |-> << "1", ".", "0", "8", "6", "0" >>,
        tp    |-> << "1", ".", "0", "9", "0", "0" >>,
        sl    |-> << "1", ".", "0", "8", "4", "0" >> ] }

\* the value written in a slot, at the asset's precision
SlotValue(text) == Some(RoundFloat(Float(text), selected_asset.price_decimals))

\* C26: for every mode's prompt template, a reply that follows the response
\* format the template asks for is parsed so that entry is the value in the
\* [ENTRY]/[TRIGGER_PRICE] slot, tp the value in the [TAKE_PROFIT] slot and
\* sl the value in the [STOP_LOSS] slot, the multi-timeframe formats that put
\* a [LIQ_LEVEL] or [FVG_LEVEL] value before [ENTRY] included.
C26_PositionalAgreement ==
    pc = "parsed" =>
        \A f \in PromptFormatReplies :
            (ai_signal = f.reply /\ ParseModeType \in f.modes) =>
                /\ signal.entry = SlotValue(f.entry)
                /\ signal.tp = SlotValue(f.tp)
                /\ signal.sl = SlotValue(f.sl)

-----------------------------------------------------------------------------
(* Claims about the confluence scores *)

\* the sum of the weights of the conditions that hold; conditions is a set of
\* records [ holds, weight ] told apart by their name
SumOfWeights(conditions) ==
    LET held == { c \in conditions : c.holds }
        RECURSIVE Sum(_)
        Sum(S) == IF S = {} THEN 0
                  ELSE LET c == CHOOSE x \in S : TRUE
                       IN  c.weight + Sum(S \ { c })
    IN  Sum(held)

\* the conditions of the scalping scorer for a side, weight 1 each
ScalpingConditions(side) ==
    LET pine == indicators.pine
    IN  { [ name |-> "order block", weight |-> 1,
            holds |-> IF side = "long" THEN pine.recent_ob_bull ELSE pine.recent_ob_bear ],
          [ name |-> "fvg", weight |-> 1,
            holds |-> IF side = "long" THEN pine.recent_fvg_up ELSE pine.recent_fvg_down ],
          [ name |-> "structure", weight |-> 1,
            holds |-> pine.current_structure = (IF side = "long" THEN 1 ELSE -1) ],
          [ name |-> "displacement", weight |-> 1,
            holds |-> pine.displacement_bias
                        = (IF side = "long" THEN "bullish" ELSE "bearish") ] }

\* the conditions of the multi-timeframe scorer for a side, weights in tenths
MultiConditions(side) ==
    LET an   == indicators.analysis
        word == IF side = "long" THEN wbullish ELSE wbearish
    IN  { [ name |-> "daily bias", weight |-> 10, holds |-> Lower(an.daily_bias) = word ],
          [ name |-> "4h structure", weight |-> 10,
            holds |-> an.h4_structure = (IF side = "long" THEN 1 ELSE -1) ],
          [ name |-> "1h trend", weight |-> 10, holds |-> Lower(an.h1_trend) = word ],
          [ name |-> "1h momentum", weight |-> 5,
            holds |-> Lower(an.h1_momentum) = word ] }

\* the conditions that can hold for one side only
OneSided == { "structure", "displacement", "daily bias", "4h structure",
              "1h trend", "1h momentum" }

\* C27: in the scalping scorer each side's score is the number of its
\* conditions that hold (order block, FVG, structure, displacement, weight 1
\* each); in the multi-timeframe scorer each side's score is 1 for the daily
\* bias + 1 for the 4H structure + 1 for the 1H trend + 0.5 for the 1H
\* momentum over the conditions that hold for the side; structure, bias,
\* trend and momentum add to at most one side.  The fallback prints the
\* scores it decided on.
C27_AdditiveScoring ==
    (pc = "done" /\ ai_signal = LLM_ERROR) =>
        IF selected_timeframe.type = "multi"
        THEN LET long  == SumOfWeights(MultiConditions("long"))
                 short == SumOfWeights(MultiConditions("short"))
             IN  /\ multi_confluence(indicators.analysis)
                       = [ long_confluence |-> long, short_confluence |-> short ]
                 /\ signal.raw_signal[2]
                       = ToString(IF signal.action = "BUY_SETUP" THEN long ELSE short)
                 /\ \A l \in MultiConditions("long"), sh \in MultiConditions("short") :
                       (l.name = sh.name /\ l.name \in OneSided) => ~(l.holds /\ sh.holds)
        ELSE LET long  == SumOfWeights(ScalpingConditions("long"))
                 short == SumOfWeights(ScalpingConditions("short"))
             IN  /\ pine_confluence(indicators.pine)
                       = [ long_signals |-> long, short_signals |-> short ]
                 /\ signal.raw_signal[2] = ToString(long)
                 /\ signal.raw_signal[4] = ToString(short)
                 /\ \A l \in ScalpingConditions("long"), sh \in ScalpingConditions("short") :
                       (l.name = sh.name /\ l.name \in OneSided) => ~(l.holds /\ sh.holds)

\* C27 witness: the daily bias "Bullish", the 4H structure bearish, the 1H
\* trend bullish and the 1H momentum bullish: the long side scored 2.5 and
\* the fallback printed it
C27_Witness ==
    /\ pc = "done"
    /\ ai_signal = LLM_ERROR
    /\ selected_timeframe.type = "multi"
    /\ indicators.analysis.daily_bias = wBullish
    /\ indicators.analysis.h4_structure = -1
    /\ indicators.analysis.h1_trend = wbullish
    /\ indicators.analysis.h1_momentum = wbullish
    /\ multi_confluence(indicators.analysis)
          = [ long_confluence |-> 25, short_confluence |-> 10 ]
    /\ signal.action = "BUY_SETUP"
    /\ signal.raw_signal[2] = ToString(25)

\* "WAIT - "
WaitPrefix == << "W", "A", "I", "T", " ", "-", " " >>

\* the reply is in the format "WAIT - [BRIEF_REASON]" of the scalping, the
\* instant and the multi-timeframe prompt
InWaitFormat(reply) ==
    /\ Len(reply) > Len(WaitPrefix)
    /\ SubSeq(reply, 1, Len(WaitPrefix)) = WaitPrefix

\* C28: a reply in the WAIT format that the scalping, instant and
\* multi-timeframe prompts ask for ("WAIT - <reason>") yields a Signal with
\* action WAIT and null entry, tp and sl, whatever words and numbers the
\* reason contains.
C28_WaitFormatYieldsWait ==
    ( /\ pc = "parsed"
      /\ ParseModeType \in { "scalping", "instant", "multi" }
      /\ InWaitFormat(ai_signal) ) =>
        /\ signal.action = "WAIT"
        /\ NoLevels(signal)

-----------------------------------------------------------------------------
(* Claims about cleanup *)

\* the exit hook runs _cleanup_files after the SIGINT handler has run it
SecondCleanup == pc = "exit" /\ exit_status # Null /\ pc' = "exited"

\* C30 as stated: running _cleanup_files a second time (the SIGINT handler
\* cleaned up, the exit hook runs it again) raises no error, deletes nothing
\* further and leaves the files on disk as they were after the first
\* cleanup, a removal having failed or not.
C30_CleanupIdempotent ==
    [][ SecondCleanup => (disk' = disk /\ exit_status' = Some(0)) ]_vars

\* C30 amended: the second run raises no error, touches no file the session
\* does not track, and deletes nothing further when the first run left no
\* tracked file on disk; a tracked file whose removal failed the first time
\* is tried again and may be deleted now.
C30_SecondCleanupRetriesOnly ==
    [][ SecondCleanup =>
            /\ exit_status' = Some(0)
            /\ disk' \subseteq disk
            /\ (disk \ disk') \subseteq Elements(created_files)
            /\ (Elements(created_files) \cap disk = {}) => disk' = disk ]_vars

\* C30 witness: five tracked files and a file the session does not track;
\* in the handler's cleanup the removal of one tracked file failed and the
\* other four were deleted; the exit hook has run as well and that file and
\* the untracked one are all that is on disk
C30_Witness ==
    /\ pc = "exited"
    /\ exit_status = Some(0)
    /\ Len(created_files) = Len(MultiTimeframes)
    /\ disk = { created_files[2], Leftover(selected_asset) }
    /\ Leftover(selected_asset) \notin Elements(created_files)

====
